---------------------------- MODULE Spec2Model ----------------------------
(***************************************************************************)
(* Particle pools of the background animations: the rain renderer (drops,  *)
(* ripples, lightning), the star field, and the weighted sampler of        *)
(* utility.ts.                                                             *)
(*                                                                         *)
(* Numbers.  The program computes in floating point; the model computes in *)
(* fixed point with Unit parts to the whole: a length, a ratio, an alpha   *)
(* or a time in seconds x is the integer x * Unit.  Times of the clock     *)
(* (performance.now()) are milliseconds, which is the same scale as        *)
(* seconds * Unit.  Counts and the plain factors of the source (a range    *)
(* of 20, a speed of 20 per second) stay plain integers.  The inputs are   *)
(* chosen so that every product is exact.                                  *)
(***************************************************************************)
EXTENDS Integers, Sequences, FiniteSets, TLC

Unit == 1000

(* a * b of two fixed-point numbers *)
Mul(a, b) == (a * b) \div Unit

Max(a, b) == IF a >= b THEN a ELSE b
Min(a, b) == IF a <= b THEN a ELSE b
Abs(a) == IF a < 0 THEN 0 - a ELSE a

(* utility.ts: Math.random() * (max - min) + min, u the value of           *)
(* Math.random() in [0, 1), that is 0 .. Unit - 1                          *)
rangedRandom(u, min, max) == Mul(u, max - min) + min

(* utility.ts: Math.min(Math.max(value, min), max) *)
clampValue(value, min, max) == Min(Max(value, min), max)

(***************************************************************************)
(* utility.ts: pickWeightedRandom.  An array is a sequence of pairs        *)
(* <<value, weight>>; the weights are plain numbers, the random value is   *)
(* fixed point.                                                            *)
(***************************************************************************)
RECURSIVE reduceWeights(_, _)
(* weightedRandomArray.reduce((acc, val) => acc + val[1], 0), the first n elements *)
reduceWeights(arr, n) == IF n = 0 THEN 0 ELSE reduceWeights(arr, n - 1) + arr[n][2]

totalWeight(arr) == reduceWeights(arr, Len(arr))

MatchesBelow(randomValue, currentWeight) == randomValue < currentWeight * Unit
(* the test of the walk: randomValue <= currentWeight *)
Matches(randomValue, currentWeight) == randomValue <= currentWeight * Unit

FallbackUndefined(arr) == "undefined"
(* the return after the loop: the last element's value *)
Fallback(arr) == arr[Len(arr)][1]

RECURSIVE WalkUnweighted(_, _, _, _)
WalkUnweighted(arr, i, currentWeight, randomValue) ==
    IF i > Len(arr)
    THEN Fallback(arr)
    ELSE IF Matches(randomValue, currentWeight + 1)
         THEN arr[i][1]
         ELSE WalkUnweighted(arr, i + 1, currentWeight + 1, randomValue)

RECURSIVE Walk(_, _, _, _)
(* the for loop from element i on, currentWeight accumulated so far *)
Walk(arr, i, currentWeight, randomValue) ==
    IF i > Len(arr)
    THEN Fallback(arr)
    ELSE LET accumulated == currentWeight + arr[i][2]
         IN  IF Matches(randomValue, accumulated)
             THEN arr[i][1]
             ELSE Walk(arr, i + 1, accumulated, randomValue)

(* u the value of Math.random(); randomValue = u * totalWeight *)
pickWeightedRandom(arr, u) == Walk(arr, 1, 0, u * totalWeight(arr))

(***************************************************************************)
(* Rain renderer: constants of rain_renderer.ts                            *)
(***************************************************************************)
RAIN_DROP_SPEED == 20
RAINING_RANGE == 20
RAINING_FROM_HEIGHT == 10
RAINDROP_TAIL_LENGTH == 500
RIPPLE_EXPAND_SPEED == 500
RIPPLE_RADIUS_MAX == 250
RIPPLE_CIRCLE_SEGMENT_COUNT == 16
LIGHTNING_INTERVAL_MIN == 5
LIGHTNING_INTERVAL_MAX == 60
LIGHTNING_INTERVAL_SUB_COUNT_MAX == 3
LIGHTNING_PEAK_PROBABILITY == 500
LIGHTNING_ALPHA_DECAY_SPEED == 5
LIGHTNING_ALPHA_MIN == 500

(* The pool of the model: RAIN_DROP_COUNT drops stand for the 1000 of the  *)
(* source.                                                                 *)
RAIN_DROP_COUNT == 2

(* The clock is followed up to MaxNow milliseconds (MaxLightningNow where  *)
(* the lightning is followed).                                             *)
MaxNow == 2000
MaxLightningNow == 1000

VARIABLES
    started,                        \* start() has run (main.ts starts a renderer before its first update)
    raindrops,                      \* this.raindrops
    ripples,                        \* this.ripples
    alpha,                          \* this.alpha, the pool's fade-in
    groundY,                        \* this.groundY
    nextLightningTime,              \* this.nextLightningTime
    currentLightningCount,          \* this.currentLightningCount
    currentRemainedLightningCount,  \* this.currentRemainedLightningCount
    currentLightningAlpha,          \* this.currentLightningAlpha
    spaceStarted,                   \* SpaceRenderer: start() has run
    stars,                          \* SpaceRenderer: this.stars
    spaceAlpha,                     \* SpaceRenderer: this.alpha
    samplerArray,                   \* pickWeightedRandom: weightedRandomArray
    samplerDraw,                    \* pickWeightedRandom: randomValue
    samplerResult,                  \* pickWeightedRandom: the value returned
    flowerStarted,                  \* FlowerFallingRenderer: start() has run
    flowerLeaves,                   \* FlowerFallingRenderer: this.flowerLeaves
    flowerAlpha,                    \* FlowerFallingRenderer: this.alpha
    waveStarted,                    \* WaveBreakingRenderer: start() has run
    waves,                          \* WaveBreakingRenderer: this.waves
    waveParticles,                  \* WaveBreakingRenderer: this.waveParticles
    waveAlpha,                      \* WaveBreakingRenderer: this.alpha
    waveBreakingButton,             \* main: the page has an element wave_breaking_button
    currentRendererName,            \* main: currentRendererName
    prevRendererName,               \* main: prevRendererName
    currentRenderer,                \* main: currentRenderer, by its key in rendererMap
    calls,                          \* main: the calls the last run of gameLoop made on renderers, in order
    rendered,                       \* main: what the last render() read
    menuDisplay,                    \* main: bottomMenu.style.display
    menuOpacity,                    \* main: bottomMenu.style.opacity: <<>> not set, <<a>> set to a (thousandths)
    menuTimers,                     \* main: the pending setTimeout callbacks of the menu, in the order they will run
    toggled,                        \* main: what each run of checkMenuToggle started, in order
    now,                            \* the last value performance.now() returned
    last                            \* what the last call did: its name, its dt, the particles it reset (each with its draws), the makeRipple calls it made

rainVars == <<started, raindrops, ripples, alpha, groundY, nextLightningTime,
              currentLightningCount, currentRemainedLightningCount,
              currentLightningAlpha>>
spaceVars == <<spaceStarted, stars, spaceAlpha>>
samplerVars == <<samplerArray, samplerDraw, samplerResult>>
flowerVars == <<flowerStarted, flowerLeaves, flowerAlpha>>
waveVars == <<waveStarted, waves, waveParticles, waveAlpha>>
menuVars == <<menuDisplay, menuOpacity, menuTimers, toggled>>
appVars == <<waveBreakingButton, currentRendererName, prevRendererName,
             currentRenderer, calls, rendered, menuVars>>
vars == <<rainVars, spaceVars, samplerVars, flowerVars, waveVars, appVars,
          now, last>>

(***************************************************************************)
(* Inputs.  A roll is the sequence of values Math.random() returns to one  *)
(* piece of code, in call order.                                           *)
(***************************************************************************)
(* the six draws of one new drop: x, y, z, speedRatio, tailLength, alpha *)
DropRolls == { <<0, 0, 500, 0, 0, 500>>, <<500, 500, 250, 500, 500, 0>> }
QuietDropRolls == { <<0, 0, 500, 0, 0, 500>> }
(* the seven draws of one drop that hits the ground: the radius of its     *)
(* ripple, then x, y, z, speedRatio, tailLength, alpha                     *)
ImpactRolls == { <<0, 0, 0, 500, 0, 0, 500>>, <<400, 500, 200, 250, 500, 500, 0>> }
QuietImpactRolls == { <<0, 0, 0, 500, 0, 0, 500>> }
(* the draws of updateLightning: the interval, the burst count, the peak   *)
(* test, the flash alpha                                                   *)
LightningRolls == { <<0, 0, 0, 0>>, <<500, 500, 0, 500>>, <<0, 500, 500, 0>> }
QuietLightningRolls == { <<0, 0, 500, 0>> }

(* frame times, in milliseconds: a frame the clock did not advance in, a   *)
(* frame of 200 ms, a frame after ten seconds in the background            *)
Dts == { 0, 200, 10000 }
LightningDts == { 0, 100, 6000 }

NoCall == [op |-> "none", dt |-> 0, reset |-> {}, spawns |-> <<>>]

(***************************************************************************)
(* initiateRaindrops                                                       *)
(***************************************************************************)
NewRaindrop(r) ==
    [ position |-> << rangedRandom(r[1], 0 - Unit, Unit) * RAINING_RANGE,
                      rangedRandom(r[2], 100, 1500) * RAINING_FROM_HEIGHT,
                      rangedRandom(r[3], 0 - Unit, Unit) * RAINING_RANGE >>,
      speedRatio |-> rangedRandom(r[4], 500, 1200),
      tailLength |-> Mul(rangedRandom(r[5], 100, 1000), RAINDROP_TAIL_LENGTH),
      alpha |-> rangedRandom(r[6], 200, 500) ]

initiateRaindrops(rolls) ==
    /\ alpha' = 0
    /\ raindrops' = [i \in 1..RAIN_DROP_COUNT |-> NewRaindrop(rolls[i])]
    /\ ripples' = <<>>

(***************************************************************************)
(* makeRipple(position): the ripples after the call and the slot written   *)
(***************************************************************************)
EmptySlots(rs) == { i \in 1..Len(rs) : rs[i].radius * 1000000 < 0 - Unit }

FirstEmptySlot(rs) ==
    IF EmptySlots(rs) = {} THEN 0
    ELSE CHOOSE i \in EmptySlots(rs) : \A j \in EmptySlots(rs) : i <= j

makeRippleAppend(rs, position, u) ==
    [ ripples |-> Append(rs, [ position |-> position,
                               radius |-> Mul(rangedRandom(u, 200, 500), RIPPLE_RADIUS_MAX),
                               alpha |-> Unit ]),
      slot |-> Len(rs) + 1 ]

makeRipple(rs, position, u) ==
    LET emptyRippleIndex == FirstEmptySlot(rs)
    IN  IF emptyRippleIndex = 0
        THEN [ ripples |-> Append(rs, [ position |-> position,
                                        radius |-> Mul(rangedRandom(u, 200, 500), RIPPLE_RADIUS_MAX),
                                        alpha |-> Unit ]),
               slot |-> Len(rs) + 1 ]
        ELSE [ ripples |-> [rs EXCEPT ![emptyRippleIndex] =
                                      [ position |-> position,
                                        radius |-> Mul(rangedRandom(u, 100, 300), RIPPLE_RADIUS_MAX),
                                        alpha |-> Unit ]],
               slot |-> emptyRippleIndex ]

(***************************************************************************)
(* updateDrops(dt)                                                         *)
(***************************************************************************)
(* the reset of a drop that went below the ground: lines 184-189 *)
ResetDropBelow(drop, r) ==
    [drop EXCEPT !.position = << rangedRandom(r[2], 0 - Unit, Unit) * RAINING_RANGE,
                                 0 - Unit,
                                 rangedRandom(r[4], 0 - Unit, Unit) * RAINING_RANGE >>]

ResetDrop(drop, r) ==
    [ position |-> << rangedRandom(r[2], 0 - Unit, Unit) * RAINING_RANGE,
                      rangedRandom(r[3], 900, 1500) * RAINING_FROM_HEIGHT,
                      rangedRandom(r[4], 0 - Unit, Unit) * RAINING_RANGE >>,
      speedRatio |-> rangedRandom(r[5], 500, 1200),
      tailLength |-> Mul(rangedRandom(r[6], 100, 1000), RAINDROP_TAIL_LENGTH),
      alpha |-> rangedRandom(r[7], 200, 500) ]

(* position[1] -= dropHeight * drop.speedRatio *)
FallDrop(drop, dropHeight) ==
    [drop EXCEPT !.position[2] = @ - Mul(dropHeight, drop.speedRatio)]

(* a slip: the coordinates of the impact exchanged *)
ImpactPositionSwapped(position, ground) == << position[3], ground, position[1] >>

(* the position handed to makeRipple for a drop below the ground *)
ImpactPosition(position, ground) == << position[1], ground, position[3] >>

(* the test of line 180 *)
BelowGroundLate(drop, ground) == drop.position[2] < ground - Unit

BelowGround(drop, ground) == drop.position[2] < ground

(* The forEach of updateDrops from drop i on: acc holds the drops and the  *)
(* ripples so far, the drops reset and the makeRipple calls made.          *)
RECURSIVE DropsFrom(_, _, _, _, _)
DropsFrom(i, acc, dropHeight, ground, rolls) ==
    IF i > Len(acc.raindrops) THEN acc
    ELSE LET moved == FallDrop(acc.raindrops[i], dropHeight)
         IN  IF BelowGround(moved, ground)
             THEN LET at == ImpactPosition(moved.position, ground)
                      made == makeRipple(acc.ripples, at, rolls[i][1])
                  IN  DropsFrom(i + 1,
                          [ raindrops |-> [acc.raindrops EXCEPT ![i] = ResetDrop(moved, rolls[i])],
                            ripples |-> made.ripples,
                            reset |-> acc.reset \cup {i},
                            spawns |-> Append(acc.spawns,
                                              [ drop |-> i, slot |-> made.slot,
                                                position |-> at,
                                                radius |-> made.ripples[made.slot].radius,
                                                alpha |-> made.ripples[made.slot].alpha ]) ],
                          dropHeight, ground, rolls)
             ELSE DropsFrom(i + 1, [acc EXCEPT !.raindrops[i] = moved],
                            dropHeight, ground, rolls)

updateDrops(drops, rs, ground, dt, rolls) ==
    DropsFrom(1, [raindrops |-> drops, ripples |-> rs, reset |-> {}, spawns |-> <<>>],
              RAIN_DROP_SPEED * dt, ground, rolls)

(* line 172: the fade-in of the pool *)
FadeInUnclamped(a, dt) == a + Mul(dt, 100)

FadeIn(a, dt) == clampValue(a + Mul(dt, 100), 0, Unit)

(***************************************************************************)
(* updateRipples(dt)                                                       *)
(***************************************************************************)
IsActive(ripple) == ~(ripple.radius < 0)

(* a slip: the alpha is not recomputed from the radius *)
GrowRippleNoFade(ripple, dt) ==
    LET radius == ripple.radius + Mul(dt, RIPPLE_EXPAND_SPEED)
    IN  IF radius >= RIPPLE_RADIUS_MAX
        THEN [ripple EXCEPT !.radius = 0 - Unit, !.alpha = 0]
        ELSE [ripple EXCEPT !.radius = radius]

(* a slip: a ripple is deactivated only once its alpha is below 0 *)
GrowRippleLate(ripple, dt) ==
    LET radius == ripple.radius + Mul(dt, RIPPLE_EXPAND_SPEED)
        a == clampValue(Unit - (radius * Unit) \div RIPPLE_RADIUS_MAX, 0 - Unit, Unit)
    IN  IF a < 0
        THEN [ripple EXCEPT !.radius = 0 - Unit, !.alpha = 0]
        ELSE [ripple EXCEPT !.radius = radius, !.alpha = a]

(* lines 202-207: one active ripple grows, fades and may be deactivated *)
GrowRipple(ripple, dt) ==
    LET radius == ripple.radius + Mul(dt, RIPPLE_EXPAND_SPEED)
        a == clampValue(Unit - (radius * Unit) \div RIPPLE_RADIUS_MAX, 0 - Unit, Unit)
    IN  IF a <= 0
        THEN [ripple EXCEPT !.radius = 0 - Unit, !.alpha = 0]
        ELSE [ripple EXCEPT !.radius = radius, !.alpha = a]

updateRipplesAll(rs, dt) == [i \in 1..Len(rs) |-> GrowRipple(rs[i], dt)]

updateRipples(rs, dt) ==
    [i \in 1..Len(rs) |-> IF IsActive(rs[i]) THEN GrowRipple(rs[i], dt) ELSE rs[i]]

(***************************************************************************)
(* getActiveRipples and the vertex count of updateVertexBuffer             *)
(***************************************************************************)
(* a slip: the test of the radius left out *)
getActiveRipplesAll(rs) == rs

getActiveRipples(rs) == SelectSeq(rs, IsActive)

(* vertexData.length / vertexStride, with vertexStride = 4 and dropStride  *)
(* = 2 * vertexStride                                                      *)
VertexCount(drops, rs) ==
    (Len(drops) * 8 + Len(getActiveRipples(rs)) * RIPPLE_CIRCLE_SEGMENT_COUNT * 2 * 4) \div 4

(***************************************************************************)
(* updateLightning(dt) at clock value t: the four lightning fields after   *)
(* the call.  r: the draws of the interval, the count, the peak test and   *)
(* the flash alpha.                                                        *)
(***************************************************************************)
DecayFast(a, dt, decaySpeed) == Max(0, a - dt * LIGHTNING_ALPHA_DECAY_SPEED)

Decay(a, dt, decaySpeed) == Max(0, a - dt * decaySpeed)

(* line 156: Math.floor(rangedRandom(1, LIGHTNING_INTERVAL_SUB_COUNT_MAX)) *)
BurstCountAbove(u) ==
    rangedRandom(u, Unit, LIGHTNING_INTERVAL_SUB_COUNT_MAX * Unit) \div Unit + 1

BurstCount(u) == rangedRandom(u, Unit, LIGHTNING_INTERVAL_SUB_COUNT_MAX * Unit) \div Unit

(* a slip: a flash without the test of the remaining count *)
FlashUnguarded(l, r) ==
    IF l.alpha * 10000 < Unit
    THEN IF r[3] < LIGHTNING_PEAK_PROBABILITY
         THEN [l EXCEPT !.alpha = rangedRandom(r[4], LIGHTNING_ALPHA_MIN, Unit),
                        !.remained = @ - 1]
         ELSE l
    ELSE l

(* lines 160-167 *)
FlashEarly(l, r) ==
    IF l.remained > 0
    THEN IF r[3] < LIGHTNING_PEAK_PROBABILITY
         THEN [l EXCEPT !.alpha = rangedRandom(r[4], LIGHTNING_ALPHA_MIN, Unit),
                        !.remained = @ - 1]
         ELSE l
    ELSE l

Flash(l, r) ==
    IF l.remained > 0 /\ l.alpha * 10000 < Unit
    THEN IF r[3] < LIGHTNING_PEAK_PROBABILITY
         THEN [l EXCEPT !.alpha = rangedRandom(r[4], LIGHTNING_ALPHA_MIN, Unit),
                        !.remained = @ - 1]
         ELSE l
    ELSE l

updateLightning(l, dt, t, r) ==
    IF t > l.next
    THEN LET nextInterval == rangedRandom(r[1], LIGHTNING_INTERVAL_MIN * Unit,
                                          LIGHTNING_INTERVAL_MAX * Unit)
         IN  [l EXCEPT !.next = t + nextInterval,
                       !.count = BurstCount(r[2]),
                       !.remained = BurstCount(r[2])]
    ELSE LET decaySpeed == IF l.remained > 0 THEN LIGHTNING_ALPHA_DECAY_SPEED ELSE 1
         IN  Flash([l EXCEPT !.alpha = Decay(l.alpha, dt, decaySpeed)], r)

Lightning == [ next |-> nextLightningTime, count |-> currentLightningCount,
               remained |-> currentRemainedLightningCount,
               alpha |-> currentLightningAlpha ]

(***************************************************************************)
(* Star field: SpaceRenderer of space_renderer.ts                          *)
(***************************************************************************)
STAR_VISUAL_RANGE == 200
STAR_FLOW_SPEED == 20

(* Bounds of the star field: the random stars of the pool, the clock *)
STAR_COUNT == 2
MaxSpaceNow == 1000

cameraDirection == <<0, 0, 0 - Unit>>
flowDirection == <<0, 0, Unit>>

(* The values of Math.random(), in thousandths, that one random star of    *)
(* initiateStars draws, in the order it draws them: x, y, z, color, size,  *)
(* speedRatio, alpha.                                                      *)
StarRolls == { <<500, 250, 480, 0, 0, 500, 0>>,
               <<0, 500, 750, 600, 500, 700, 500>> }
(* The draws of a star that flowStars recycles: x, y, z, color, speedRatio *)
RecycleRolls == { <<500, 250, 490, 0, 500>>,
                  <<0, 500, 750, 600, 700>> }
QuietStarRolls == { <<500, 250, 480, 0, 0, 500, 0>> }
QuietRecycleRolls == { <<500, 250, 490, 0, 500>> }
SpaceDts == { 0, 200, 10000 }

StarSpeedRatioTable ==
    << <<100, 5>>, <<200, 10>>, <<300, 15>>, <<400, 20>>, <<500, 25>>,
       <<600, 20>>, <<700, 15>>, <<800, 10>>, <<900, 5>>,
       <<Unit, 200>>, <<10 * Unit, 100>>, <<20 * Unit, 50>> >>
getStarSpeedRatio(u) == pickWeightedRandom(StarSpeedRatioTable, u)

StarColorTable ==
    << << <<1, 1, 1>>, 50 >>, << <<1, 0, 0>>, 10 >>, << <<0, 1, 0>>, 10 >>,
       << <<0, 0, 1>>, 10 >>, << <<1, 1, 0>>, 10 >> >>
getStarColor(u) == pickWeightedRandom(StarColorTable, u)

(* rangedRandom(-1, 1) * STAR_VISUAL_RANGE *)
StarCoordinate(u) == rangedRandom(u, 0 - Unit, Unit) * STAR_VISUAL_RANGE

TestStar == [ position |-> <<0, 0, 0 - 5 * Unit>>, color |-> <<1, 1, 1>>,
              size |-> 5 * Unit, speedRatio |-> Unit, alpha |-> Unit ]

NewStar(r) ==
    [ position |-> <<StarCoordinate(r[1]), StarCoordinate(r[2]), StarCoordinate(r[3])>>,
      color |-> getStarColor(r[4]),
      size |-> rangedRandom(r[5], Unit, 3 * Unit),
      speedRatio |-> getStarSpeedRatio(r[6]),
      alpha |-> rangedRandom(r[7], 500, Unit) ]

(* initiateStars(): the default test star, then STAR_COUNT random stars *)
initiateStars(rolls) ==
    /\ spaceAlpha' = 0
    /\ stars' = <<TestStar>> \o [i \in 1..STAR_COUNT |-> NewStar(rolls[i])]

(* vec3.dot *)
Dot(a, b) == Mul(a[1], b[1]) + Mul(a[2], b[2]) + Mul(a[3], b[3])

(* the star moved along flowDirection by flowAmount * speedRatio, its      *)
(* alpha raised by dt * speedRatio                                         *)
MoveStar(star, dt) ==
    LET amount == Mul(STAR_FLOW_SPEED * dt, star.speedRatio)
    IN  [star EXCEPT
           !.position = [k \in 1..3 |-> star.position[k] + Mul(flowDirection[k], amount)],
           !.alpha = clampValue(star.alpha + Mul(dt, star.speedRatio), 0, Unit)]

outOfVisualRange(position) ==
    \/ Abs(position[3]) > STAR_VISUAL_RANGE * Unit
    \/ Abs(position[1]) > STAR_VISUAL_RANGE * Unit
    \/ Abs(position[2]) > STAR_VISUAL_RANGE * Unit

outOfScreenNever(position) == FALSE

outOfScreen(position) == Dot(position, cameraDirection) < 0

RecycleStarKeepAlpha(star, r) ==
    [star EXCEPT
       !.position = <<StarCoordinate(r[1]), StarCoordinate(r[2]), StarCoordinate(r[3])>>,
       !.color = getStarColor(r[4]),
       !.speedRatio = getStarSpeedRatio(r[5])]

(* the branch of flowStars that redraws a star *)
RecycleStar(star, r) ==
    [star EXCEPT
       !.position = <<StarCoordinate(r[1]), StarCoordinate(r[2]), StarCoordinate(r[3])>>,
       !.alpha = 0,
       !.color = getStarColor(r[4]),
       !.speedRatio = getStarSpeedRatio(r[5])]

(* the stars that flowStars(dt) redraws *)
Recycled(pool, dt) ==
    { i \in 1..Len(pool) :
        LET position == MoveStar(pool[i], dt).position
        IN  outOfVisualRange(position) \/ outOfScreen(position) }

(* flowStars(dt): rolls gives the draws of each star that is redrawn *)
flowStars(dt, rolls) ==
    /\ spaceAlpha' = clampValue(spaceAlpha + Mul(dt, 100), 0, Unit)
    /\ stars' = [i \in 1..Len(stars) |->
                   IF i \in Recycled(stars, dt)
                   THEN RecycleStar(MoveStar(stars[i], dt), rolls[i])
                   ELSE MoveStar(stars[i], dt)]

SpaceConstructed ==
    /\ spaceStarted = FALSE
    /\ stars = <<>>
    /\ spaceAlpha = 0

(* start(): initiateStars (the rest is the shader program) *)
SpaceStart(rolls) ==
    /\ initiateStars(rolls)
    /\ spaceStarted' = TRUE
    /\ last' = [NoCall EXCEPT !.op = "start"]
    /\ UNCHANGED <<rainVars, samplerVars, flowerVars, waveVars, appVars, now>>

(* update(dt): flowStars *)
SpaceUpdate(dt, t, rolls) ==
    /\ spaceStarted
    /\ flowStars(dt, rolls)
    /\ now' = t
    /\ last' = [ op |-> "flowStars", dt |-> dt, reset |-> rolls,
                 out |-> { i \in 1..Len(stars) :
                             outOfVisualRange(MoveStar(stars[i], dt).position) } ]
    /\ UNCHANGED <<spaceStarted, rainVars, samplerVars, flowerVars, waveVars, appVars>>

(***************************************************************************)
(* Falling flower leaves: FlowerFallingRenderer of                         *)
(* flower_falling_renderer.ts                                              *)
(***************************************************************************)
FLOWER_LEAF_RANGE == 20
FLOWER_LEAF_FALLING_HEIGHT == 20
FLOWER_FALLING_SPEED == 5100
WIND_VECTOR == <<0 - 3500, 0, 2850>>
(* 2 * Math.PI, in thousandths *)
TwoPi == 6283
(* this.groundY, which nothing assigns after the construction *)
FlowerGroundY == 0

(* Bounds of the flower leaves: the leaves of the pool, the clock *)
FLOWER_LEAF_COUNT == 2
MaxFlowerNow == 1000

(* The draws of one leaf of initiateFlowerFalling: x, y, z, the three      *)
(* rotations, fallingSpeedRatio.                                           *)
LeafRolls == { <<500, 0, 500, 0, 0, 0, 0>>,
               <<0, 500, 750, 0, 500, 0, 500>> }
QuietLeafRolls == { <<500, 0, 500, 0, 0, 0, 0>> }
(* The draws of a leaf that updateFlowerFalling resets: x, y, z,           *)
(* fallingSpeedRatio, the three rotations.                                 *)
LeafResetRolls == { <<500, 0, 500, 0, 0, 0, 0>>,
                    <<250, 500, 750, 500, 0, 500, 0>> }
QuietLeafResetRolls == { <<500, 0, 500, 0, 0, 0, 0>> }
FlowerDts == { 0, 200, 10000 }

NewLeaf(r) ==
    [ position |-> <<rangedRandom(r[1], 0 - Unit, Unit) * FLOWER_LEAF_RANGE,
                     rangedRandom(r[2], 100, 1500) * FLOWER_LEAF_FALLING_HEIGHT,
                     rangedRandom(r[3], 0 - Unit, Unit) * FLOWER_LEAF_RANGE>>,
      rotation |-> <<rangedRandom(r[4], 0, TwoPi), rangedRandom(r[5], 0, TwoPi),
                     rangedRandom(r[6], 0, TwoPi)>>,
      fallingSpeedRatio |-> rangedRandom(r[7], 500, 1200) ]

(* initiateFlowerFalling(): the leaves it pushes *)
initiateFlowerFalling(rolls) == [i \in 1..FLOWER_LEAF_COUNT |-> NewLeaf(rolls[i])]

(* the leaf fallen by dropHeight * fallingSpeedRatio and blown by the wind *)
BlowLeaf(leaf, dt) ==
    LET dropHeight == Mul(FLOWER_FALLING_SPEED, dt)
    IN  [leaf EXCEPT
           !.position = <<leaf.position[1] + Mul(WIND_VECTOR[1], dt),
                          leaf.position[2] - Mul(dropHeight, leaf.fallingSpeedRatio)
                              + Mul(WIND_VECTOR[2], dt),
                          leaf.position[3] + Mul(WIND_VECTOR[3], dt)>>]

LeafBelowGround(leaf) == leaf.position[2] < FlowerGroundY

(* reset the leaf *)
ResetLeafNever(leaf, r) == leaf
ResetLeaf(leaf, r) ==
    [ position |-> <<rangedRandom(r[1], 0 - Unit, Unit) * FLOWER_LEAF_RANGE,
                     rangedRandom(r[2], 900, 1500) * FLOWER_LEAF_FALLING_HEIGHT,
                     rangedRandom(r[3], 0 - Unit, Unit) * FLOWER_LEAF_RANGE>>,
      fallingSpeedRatio |-> rangedRandom(r[4], 500, 1200),
      rotation |-> <<rangedRandom(r[5], 0, TwoPi), rangedRandom(r[6], 0, TwoPi),
                     rangedRandom(r[7], 0, TwoPi)>> ]

(* rotate the leaf along the speed *)
RotateLeafSteady(leaf, dt) ==
    [leaf EXCEPT !.rotation = [k \in 1..3 |-> leaf.rotation[k] + 1]]

RotateLeaf(leaf, dt) ==
    LET rotationSpeed == Mul(leaf.fallingSpeedRatio, dt)
    IN  [leaf EXCEPT !.rotation = [k \in 1..3 |-> leaf.rotation[k] + rotationSpeed]]

(* the leaves that updateFlowerFalling(dt) resets *)
LeavesReset(leaves, dt) ==
    { i \in 1..Len(leaves) : LeafBelowGround(BlowLeaf(leaves[i], dt)) }

(* updateFlowerFalling(dt): rolls gives the draws of each leaf it resets *)
updateFlowerFalling(leaves, dt, rolls) ==
    [i \in 1..Len(leaves) |->
        RotateLeaf(IF i \in LeavesReset(leaves, dt)
                   THEN ResetLeaf(BlowLeaf(leaves[i], dt), rolls[i])
                   ELSE BlowLeaf(leaves[i], dt),
                   dt)]

FlowerConstructed ==
    /\ flowerStarted = FALSE
    /\ flowerLeaves = <<>>
    /\ flowerAlpha = 0

(* start(): initiateFlowerFalling (the rest is the shader program) *)
FlowerStart(rolls) ==
    /\ flowerAlpha' = 0
    /\ flowerLeaves' = initiateFlowerFalling(rolls)
    /\ flowerStarted' = TRUE
    /\ last' = [NoCall EXCEPT !.op = "start"]
    /\ UNCHANGED <<rainVars, spaceVars, samplerVars, waveVars, appVars, now>>

(* update(dt): updateFlowerFalling *)
FlowerUpdate(dt, t, rolls) ==
    /\ flowerStarted
    /\ flowerLeaves' = updateFlowerFalling(flowerLeaves, dt, rolls)
    /\ now' = t
    /\ last' = [ op |-> "updateFlowerFalling", dt |-> dt, reset |-> rolls ]
    /\ UNCHANGED <<flowerStarted, flowerAlpha, rainVars, spaceVars, samplerVars,
                   waveVars, appVars>>

(***************************************************************************)
(* Breaking waves: WaveBreakingRenderer of wave_break_renderer.js          *)
(***************************************************************************)
WAVE_COUNT == 3
WAVE_BIAS_MIN == 10
WAVE_BIAS_MAX == 30
WAVE_PROGRESS_SPEED == 300
WAVE_BREAKING_START_PROGRESS == 900
WAVE_WIDTH == 10
WAVE_DISTANCE_DEPTH == 30
WAVE_PARTICLE_AGE_RANDOM == 100
WAVE_PARTICLE_ROTATION_SPEED == 100
WAVE_PARTICLE_AGING_SPEED == 1

(* Bounds of the waves: the samples a breaking wave takes in one update,   *)
(* the clock, the particles alive at once, the calls of start()            *)
WAVE_PARTICLE_SAMPLING_COUNT == 1
MaxWaveNow == 1400
MaxWaveParticles == 4
MaxWaveStarts == 2

(* The draws of wave iMake of initiateWaveBreaking: progress, xBias.  The  *)
(* progress draws are those for which (iMake + draw) / WAVE_COUNT is exact *)
WaveRolls(iMake) ==
    CASE iMake = 0 -> { <<500, 0>>, <<20, 0>> }
      [] iMake = 1 -> { <<300, 500>> }
      [] iMake = 2 -> { <<700, 0>>, <<100, 500>> }
(* the draw of a wave that starts over: xBias *)
WaveBiasRolls == { <<500>> }
(* the draws of one sample of a breaking wave: sampleX, the three          *)
(* rotations, age                                                          *)
SampleRolls == { <<500, 0, 0, 0, 0>>, <<0, 0, 0, 0, 500>> }
QuietSampleRolls == { <<0, 0, 0, 0, 500>> }
WaveDts == { 0, 200, 10000 }
(* the steps and the sample draws followed for the waves alone: a step of  *)
(* 1 s brings a wave at 0.7 to exactly 1 and a particle of age 0 to        *)
(* exactly 1                                                               *)
WavesDts == { 0, 200, 1000, 10000 }
AgeSampleRolls == { <<0, 0, 0, 0, 0>>, <<0, 0, 0, 0, 500>> }
MaxWavesNow == 2400

NewWave(iMake, r) ==
    [ progress |-> (iMake * Unit + rangedRandom(r[1], 0 - 250, 250)) \div WAVE_COUNT,
      xBias |-> rangedRandom(r[2], WAVE_BIAS_MIN, WAVE_BIAS_MAX) ]

(* initiateWaveBreaking(): WAVE_COUNT waves pushed onto this.waves *)
initiateWaveBreaking(ws, rolls) ==
    ws \o [i \in 1..WAVE_COUNT |-> NewWave(i - 1, rolls[i])]

ProgressWave(wave, dt) ==
    [wave EXCEPT !.progress = wave.progress + Mul(WAVE_PROGRESS_SPEED, dt)]

WavesOverNever(ws, dt) == {}

(* the waves that updateWave(dt) starts over *)
WavesOver(ws, dt) ==
    { i \in 1..Len(ws) : ProgressWave(ws[i], dt).progress > Unit }

(* updateWave(dt): rolls gives the draw of each wave that starts over *)
updateWave(ws, dt, rolls) ==
    [i \in 1..Len(ws) |->
        IF i \in WavesOver(ws, dt)
        THEN [ progress |-> 0,
               xBias |-> rangedRandom(rolls[i][1], WAVE_BIAS_MIN, WAVE_BIAS_MAX) ]
        ELSE ProgressWave(ws[i], dt)]

(* the waves that are breaking, in the order of the loop *)
BreakingWaves(ws) ==
    SelectSeq([i \in 1..Len(ws) |-> i],
              LAMBDA i : ~(ws[i].progress < WAVE_BREAKING_START_PROGRESS))

(* the samples updateWaveBreaking takes: the n-th is of wave SampledWave *)
SampleCount(ws) == Len(BreakingWaves(ws)) * WAVE_PARTICLE_SAMPLING_COUNT
SampledWave(ws, n) ==
    ws[BreakingWaves(ws)[(n - 1) \div WAVE_PARTICLE_SAMPLING_COUNT + 1]]

biasedProgress(wave, r) == wave.progress - Mul(r[1], wave.xBias)

SampleSpawns(wave, r) ==
    ~(biasedProgress(wave, r) < 0 \/ biasedProgress(wave, r) > Unit)

newWaveParticle(wave, r) ==
    [ position |-> <<(r[1] - 500) * WAVE_WIDTH, 0,
                     0 - (Unit - biasedProgress(wave, r)) * WAVE_DISTANCE_DEPTH>>,
      rotation |-> <<rangedRandom(r[2], 0, TwoPi), rangedRandom(r[3], 0, TwoPi),
                     rangedRandom(r[4], 0, TwoPi)>>,
      age |-> 0 + rangedRandom(r[5], 0, WAVE_PARTICLE_AGE_RANDOM) ]

(* the particles the first loop of updateWaveBreaking pushes *)
SpawnedParticles(ws, rolls) ==
    LET spawning == SelectSeq([n \in 1..SampleCount(ws) |-> n],
                              LAMBDA n : SampleSpawns(SampledWave(ws, n), rolls[n]))
    IN  [k \in 1..Len(spawning) |->
            newWaveParticle(SampledWave(ws, spawning[k]), rolls[spawning[k]])]

AgeParticle(particle, dt) ==
    LET rotationAmount == Mul(WAVE_PARTICLE_ROTATION_SPEED, dt)
    IN  [particle EXCEPT
           !.rotation = [k \in 1..3 |-> particle.rotation[k] + rotationAmount],
           !.age = particle.age + dt * WAVE_PARTICLE_AGING_SPEED]

SpliceNothing(particles, iParticle) == particles
(* this.waveParticles.splice(iParticle, 1), iParticle counted from 0 *)
Splice(particles, iParticle) ==
    SubSeq(particles, 1, iParticle) \o SubSeq(particles, iParticle + 2, Len(particles))

AfterSpliceKept(iParticle) == iParticle
(* iParticle-- after the splice *)
AfterSplice(iParticle) == iParticle - 1

RECURSIVE ParticlesFrom(_, _, _, _)
(* The second loop of updateWaveBreaking from iParticle on (counted from   *)
(* 0): the particle aged, and spliced out with iParticle-- if its age is   *)
(* above 1.  The loop is followed for `turns` turns; completed tells       *)
(* whether it ended within them.                                           *)
ParticlesFrom(particles, iParticle, dt, turns) ==
    IF ~(iParticle < Len(particles))
    THEN [ particles |-> particles, completed |-> TRUE ]
    ELSE IF turns = 0
         THEN [ particles |-> particles, completed |-> FALSE ]
         ELSE LET particle == AgeParticle(particles[iParticle + 1], dt)
              IN  IF particle.age > Unit
                  THEN ParticlesFrom(Splice(particles, iParticle),
                                     AfterSplice(iParticle) + 1, dt, turns - 1)
                  ELSE ParticlesFrom([particles EXCEPT ![iParticle + 1] = particle],
                                     iParticle + 1, dt, turns - 1)

(* updateWaveBreaking(dt): spawn, then age and cull; the second loop takes *)
(* one turn for each particle                                              *)
updateWaveBreaking(ws, particles, dt, rolls) ==
    LET all == particles \o SpawnedParticles(ws, rolls)
    IN  ParticlesFrom(all, 0, dt, Len(all))

WaveConstructed ==
    /\ waveStarted = FALSE
    /\ waves = <<>>
    /\ waveParticles = <<>>
    /\ waveAlpha = 0

(* start(): initiateWaveBreaking (the rest is the shader program) *)
WaveStart(rolls) ==
    /\ waveAlpha' = 0
    /\ waveParticles' = <<>>
    /\ waves' = initiateWaveBreaking(waves, rolls)
    /\ waveStarted' = TRUE
    /\ last' = [NoCall EXCEPT !.op = "start"]
    /\ UNCHANGED <<rainVars, spaceVars, samplerVars, flowerVars, appVars, now>>

(* update(dt): updateWave, updateWaveBreaking *)
WaveUpdate(dt, t, biasRolls, sampleRolls) ==
    /\ waveStarted
    /\ waves' = updateWave(waves, dt, biasRolls)
    /\ LET broken == updateWaveBreaking(updateWave(waves, dt, biasRolls),
                                        waveParticles, dt, sampleRolls)
       IN  /\ broken.completed
           /\ waveParticles' = broken.particles
           /\ last' = [ op |-> "updateWave", dt |-> dt, reset |-> biasRolls,
                        samples |-> sampleRolls,
                        culled |-> (Len(waveParticles) + Len(sampleRolls))
                                       - Len(broken.particles) ]
    /\ now' = t
    /\ UNCHANGED <<waveStarted, waveAlpha, rainVars, spaceVars, samplerVars,
                   flowerVars, appVars>>

(***************************************************************************)
(* The page: startApp and gameLoop of main.ts.  A renderer is named by its *)
(* key in rendererMap; "undefined" is what rendererMap.get gives for a key *)
(* it does not hold.                                                       *)
(***************************************************************************)
RendererNames == <<"space", "rain", "flower_falling">>
rendererMap == { RendererNames[i] : i \in 1..Len(RendererNames) }
rendererMapGet(name) == IF name \in rendererMap THEN name ELSE "undefined"

(* the buttons of the page; the last one only where the page has it *)
ButtonNames == { "space", "rain", "flower_falling", "wave_breaking" }

(* the clock of the page is followed up to MaxAppNow *)
MaxAppNow == 600
AppDts == { 0, 200 }
(* the draws of the pick of the first renderer *)
AppPickDraws == { 0, 500, 999 }
(* the draws of one run of gameLoop: every particle that draws in that run *)
(* draws the same values                                                   *)
AppRolls ==
    [ drop : QuietDropRolls, impact : QuietImpactRolls, lightning : QuietLightningRolls,
      star : QuietStarRolls, recycle : QuietRecycleRolls,
      leaf : QuietLeafRolls, leafReset : QuietLeafResetRolls ]

(* the simulation state of each renderer of rendererMap *)
RendererStates ==
    [ rain |-> [ raindrops |-> raindrops, ripples |-> ripples, alpha |-> alpha,
                 lightning |-> Lightning ],
      space |-> [ stars |-> stars, alpha |-> spaceAlpha ],
      flower_falling |-> [ flowerLeaves |-> flowerLeaves, alpha |-> flowerAlpha ],
      started |-> [ rain |-> started, space |-> spaceStarted,
                    flower_falling |-> flowerStarted ],
      rendered |-> rendered ]

(* renderer.start() *)
StartRenderer(st, name, rolls) ==
    CASE name = "rain" ->
           [st EXCEPT !.rain.raindrops = [i \in 1..RAIN_DROP_COUNT |-> NewRaindrop(rolls.drop)],
                      !.rain.ripples = <<>>,
                      !.rain.alpha = 0,
                      !.started.rain = TRUE]
      [] name = "space" ->
           [st EXCEPT !.space.stars = <<TestStar>> \o [i \in 1..STAR_COUNT |-> NewStar(rolls.star)],
                      !.space.alpha = 0,
                      !.started.space = TRUE]
      [] name = "flower_falling" ->
           [st EXCEPT !.flower_falling.flowerLeaves =
                          initiateFlowerFalling([i \in 1..FLOWER_LEAF_COUNT |-> rolls.leaf]),
                      !.flower_falling.alpha = 0,
                      !.started.flower_falling = TRUE]

(* renderer.update(dt), the clock at t *)
UpdateRenderer(st, name, dt, t, rolls) ==
    CASE name = "rain" ->
           LET d == updateDrops(st.rain.raindrops, st.rain.ripples, groundY, dt,
                                [i \in 1..Len(st.rain.raindrops) |-> rolls.impact])
           IN  [st EXCEPT !.rain.alpha = FadeIn(st.rain.alpha, dt),
                          !.rain.raindrops = d.raindrops,
                          !.rain.ripples = updateRipples(d.ripples, dt),
                          !.rain.lightning =
                              updateLightning(st.rain.lightning, dt, t, rolls.lightning)]
      [] name = "space" ->
           [st EXCEPT !.space.alpha = clampValue(st.space.alpha + Mul(dt, 100), 0, Unit),
                      !.space.stars =
                          [i \in 1..Len(st.space.stars) |->
                              IF i \in Recycled(st.space.stars, dt)
                              THEN RecycleStar(MoveStar(st.space.stars[i], dt), rolls.recycle)
                              ELSE MoveStar(st.space.stars[i], dt)]]
      [] name = "flower_falling" ->
           [st EXCEPT !.flower_falling.flowerLeaves =
                          updateFlowerFalling(st.flower_falling.flowerLeaves, dt,
                              [i \in 1..Len(st.flower_falling.flowerLeaves) |-> rolls.leafReset])]

(* renderer.render(): it reads the renderer's state into the vertex buffer *)
RenderRenderer(st, name) ==
    [st EXCEPT !.rendered = [ name |-> name, state |-> st[name] ]]

(* one call on a renderer; stop() does nothing *)
CallRenderer(st, call, dt, t, rolls) ==
    CASE call[1] = "stop" -> st
      [] call[1] = "start" -> StartRenderer(st, call[2], rolls)
      [] call[1] = "update" -> UpdateRenderer(st, call[2], dt, t, rolls)
      [] call[1] = "render" -> RenderRenderer(st, call[2])

RECURSIVE RunCalls(_, _, _, _, _)
(* the calls made one after the other *)
RunCalls(st, cs, dt, t, rolls) ==
    IF cs = <<>> THEN st
    ELSE RunCalls(CallRenderer(st, Head(cs), dt, t, rolls), Tail(cs), dt, t, rolls)

(* optional call: renderer?.op() *)
OptionalCall(op, renderer) ==
    IF renderer = "undefined" THEN <<>> ELSE << <<op, renderer>> >>

(* the calls of one run of gameLoop, in order *)
gameLoopCalls(prevName, currentName, renderer) ==
    (IF prevName # currentName
     THEN OptionalCall("stop", renderer) \o OptionalCall("start", rendererMapGet(currentName))
     ELSE <<>>)
    \o OptionalCall("update", rendererMapGet(currentName))
    \o OptionalCall("render", rendererMapGet(currentName))

(* the renderers' variables take the values of st *)
RenderersBecome(st) ==
    /\ raindrops' = st.rain.raindrops
    /\ ripples' = st.rain.ripples
    /\ alpha' = st.rain.alpha
    /\ nextLightningTime' = st.rain.lightning.next
    /\ currentLightningCount' = st.rain.lightning.count
    /\ currentRemainedLightningCount' = st.rain.lightning.remained
    /\ currentLightningAlpha' = st.rain.lightning.alpha
    /\ started' = st.started.rain
    /\ stars' = st.space.stars
    /\ spaceAlpha' = st.space.alpha
    /\ spaceStarted' = st.started.space
    /\ flowerLeaves' = st.flower_falling.flowerLeaves
    /\ flowerAlpha' = st.flower_falling.alpha
    /\ flowerStarted' = st.started.flower_falling
    /\ rendered' = st.rendered

NoRender == [ name |-> "undefined", state |-> <<>> ]

(* startApp() up to the listeners: the renderers constructed, the name     *)
(* 'space' assigned, nothing picked or started yet                         *)
AppConstructed ==
    /\ currentRendererName = "space"
    /\ prevRendererName = "undefined"
    /\ currentRenderer = "undefined"
    /\ calls = <<>>
    /\ rendered = NoRender
    /\ menuDisplay = ""
    /\ menuOpacity = <<>>
    /\ menuTimers = <<>>
    /\ toggled = <<>>

(* one run of gameLoop, the clock at t: the calls, then the bookkeeping *)
gameLoop(st, prevName, currentName, renderer, dt, t, rolls) ==
    LET cs == gameLoopCalls(prevName, currentName, renderer)
    IN  /\ RenderersBecome(RunCalls(st, cs, dt, t, rolls))
        /\ calls' = cs
        /\ currentRendererName' = currentName
        /\ prevRendererName' = currentName
        /\ currentRenderer' = rendererMapGet(currentName)
        /\ now' = t
        /\ last' = [ op |-> "gameLoop", dt |-> dt ]
        /\ UNCHANGED <<groundY, samplerVars, waveVars, waveBreakingButton, menuVars>>

(* startApp() from the pick on: the renderer picked evenly and started,    *)
(* then the first run of gameLoop, in the same task                        *)
startApp(u, rolls) ==
    LET name == pickWeightedRandom([i \in 1..Len(RendererNames) |-> <<RendererNames[i], 1>>], u)
    IN  /\ prevRendererName = "undefined"
        /\ gameLoop(StartRenderer(RendererStates, rendererMapGet(name), rolls),
                    name, name, rendererMapGet(name), 0, now, rolls)

(* requestAnimationFrame(gameLoop): dt after the last run *)
AnimationFrame(dt, rolls) ==
    /\ prevRendererName # "undefined"
    /\ gameLoop(RendererStates, prevRendererName, currentRendererName,
                currentRenderer, dt, now + dt, rolls)

(* a click on the button of name *)
Click(name) ==
    /\ prevRendererName # "undefined"
    /\ name = "wave_breaking" => waveBreakingButton
    /\ currentRendererName' = name
    /\ UNCHANGED <<rainVars, spaceVars, samplerVars, flowerVars, waveVars,
                   waveBreakingButton, prevRendererName, currentRenderer, calls,
                   rendered, menuVars, now, last>>

(***************************************************************************)
(* The bottom menu of main.ts.  hideBottomMenu and showBottomMenu each     *)
(* start a chain of setTimeout callbacks that holds its own prevTime and   *)
(* alpha (thousandths).  Every timer has the same delay, easeTimeStep, so  *)
(* the pending callbacks run in the order they were set; a callback runs   *)
(* at its due time or later.                                               *)
(***************************************************************************)
easeTimeStep == 5
alphaStepPerSec == Unit
(* the calls of checkMenuToggle followed *)
MaxToggles == 4
(* the time that passes before a click or before the next callback, ms:   *)
(* none (a callback that was already due), half a fade, a whole fade       *)
MenuDts == { 0, 500, 1000 }
(* the clock of the menu is followed up to MaxMenuNow *)
MaxMenuNow == 2600

setTimeout(timers, kind, prevTime, a, t) ==
    Append(timers, [ kind |-> kind, prevTime |-> prevTime, alpha |-> a,
                     due |-> t + easeTimeStep ])

(* hideBottomMenu() at clock t *)
hideBottomMenu(t) ==
    /\ menuTimers' = setTimeout(menuTimers, "easeToTransparent", t, Unit, t)
    /\ UNCHANGED <<menuDisplay, menuOpacity>>

(* showBottomMenu() at clock t *)
showBottomMenu(t) ==
    /\ menuDisplay' = "flex"
    /\ menuOpacity' = <<0>>
    /\ menuTimers' = setTimeout(menuTimers, "easeToOpaque", t, 0, t)

(* checkMenuToggle, run by a mouseup or touchend on the canvas at clock t *)
checkMenuToggle(t) ==
    /\ IF menuDisplay = "flex"
       THEN hideBottomMenu(t) /\ toggled' = Append(toggled, "hideBottomMenu")
       ELSE showBottomMenu(t) /\ toggled' = Append(toggled, "showBottomMenu")
    /\ now' = t
    /\ last' = [NoCall EXCEPT !.op = "checkMenuToggle"]

(* easeToTransparent of the chain `timer`, run at clock t *)
easeToTransparent(timer, rest, t) ==
    LET dt == t - timer.prevTime
        a == timer.alpha - Mul(dt, alphaStepPerSec)
    IN  IF a > 0
        THEN /\ menuOpacity' = <<a>>
             /\ menuTimers' = setTimeout(rest, "easeToTransparent", t, a, t)
             /\ UNCHANGED menuDisplay
        ELSE /\ menuDisplay' = "none"
             /\ menuOpacity' = <<0>>
             /\ menuTimers' = rest

(* easeToOpaque of the chain `timer`, run at clock t *)
easeToOpaque(timer, rest, t) ==
    LET dt == t - timer.prevTime
        a == timer.alpha + Mul(dt, alphaStepPerSec)
    IN  /\ IF a < Unit
           THEN /\ menuOpacity' = <<a>>
                /\ menuTimers' = setTimeout(rest, "easeToOpaque", t, a, t)
           ELSE /\ menuOpacity' = <<Unit>>
                /\ menuTimers' = rest
        /\ UNCHANGED menuDisplay

MenuUnchanged ==
    UNCHANGED <<rainVars, spaceVars, samplerVars, flowerVars, waveVars,
                waveBreakingButton, currentRendererName, prevRendererName,
                currentRenderer, calls, rendered>>

(* a click or touch on the canvas *)
MenuClick ==
    /\ Len(toggled) < MaxToggles
    /\ \E d \in MenuDts : now + d <= MaxMenuNow /\ checkMenuToggle(now + d)
    /\ MenuUnchanged

(* the first pending callback runs *)
MenuTimer ==
    /\ menuTimers # <<>>
    /\ \E d \in MenuDts :
         LET timer == Head(menuTimers)
             t == now + d
         IN  /\ t <= MaxMenuNow
             /\ ~(t < timer.due)
             /\ IF timer.kind = "easeToTransparent"
                THEN easeToTransparent(timer, Tail(menuTimers), t)
                ELSE easeToOpaque(timer, Tail(menuTimers), t)
             /\ now' = t
             /\ last' = [NoCall EXCEPT !.op = timer.kind]
    /\ UNCHANGED toggled
    /\ MenuUnchanged

NextMenu ==
    \/ MenuClick
    \/ MenuTimer

(***************************************************************************)
(* The weighted sampler called on its own                                  *)
(***************************************************************************)
MaxLen == 3
MaxWeight == 2
SamplerValues == { "a", "b", "c" }
SamplerArrays ==
    UNION { [1..n -> SamplerValues \X (1..MaxWeight)] : n \in 1..MaxLen }
(* values of Math.random(): 0, the boundaries a quarter apart, the highest *)
SamplerDraws == { 0, 250, 500, 750, 999 }

SamplerIdle ==
    /\ samplerArray = <<>>
    /\ samplerDraw = 0
    /\ samplerResult = "none"

(* a caller holds an array, Math.random() is about to give samplerDraw *)
SamplerCalled ==
    /\ samplerArray \in SamplerArrays
    /\ samplerDraw \in SamplerDraws
    /\ samplerResult = "none"

Pick ==
    /\ samplerResult = "none"
    /\ samplerResult' = pickWeightedRandom(samplerArray, samplerDraw)
    /\ UNCHANGED <<samplerArray, samplerDraw, rainVars, spaceVars, flowerVars,
                   waveVars, appVars, now, last>>

(***************************************************************************)
(* The renderer's life: constructed, started by main.ts, updated each      *)
(* frame.                                                                  *)
(***************************************************************************)
RainConstructed ==
    /\ started = FALSE
    /\ raindrops = <<>>
    /\ ripples = <<>>
    /\ alpha = 0
    /\ groundY = 0
    /\ nextLightningTime = 0
    /\ currentLightningCount = 0
    /\ currentRemainedLightningCount = 0
    /\ currentLightningAlpha = 0

(* Every renderer constructed, none started; the page's clock has run.     *)
Init ==
    /\ RainConstructed
    /\ SpaceConstructed
    /\ SamplerIdle
    /\ FlowerConstructed
    /\ WaveConstructed
    /\ AppConstructed
    /\ waveBreakingButton = FALSE
    /\ now = 1
    /\ last = NoCall

(* start(): initiateRaindrops (the rest is the shader program) *)
Start(rolls) ==
    /\ initiateRaindrops(rolls)
    /\ started' = TRUE
    /\ last' = [NoCall EXCEPT !.op = "start"]
    /\ UNCHANGED <<groundY, nextLightningTime, currentLightningCount,
                   currentRemainedLightningCount, currentLightningAlpha, now>>
    /\ UNCHANGED <<spaceVars, samplerVars, flowerVars, waveVars, appVars>>

(* update(dt): updateDrops, updateRipples, updateLightning *)
Update(dt, t, rolls, lightningRolls) ==
    /\ started
    /\ LET d == updateDrops(raindrops, ripples, groundY, dt, rolls)
           l == updateLightning(Lightning, dt, t, lightningRolls)
       IN  /\ alpha' = FadeIn(alpha, dt)
           /\ raindrops' = d.raindrops
           /\ ripples' = updateRipples(d.ripples, dt)
           /\ nextLightningTime' = l.next
           /\ currentLightningCount' = l.count
           /\ currentRemainedLightningCount' = l.remained
           /\ currentLightningAlpha' = l.alpha
           /\ now' = t
           /\ last' = [ op |-> "update", dt |-> dt,
                        reset |-> [i \in d.reset |-> rolls[i]],
                        spawns |-> d.spawns ]
    /\ UNCHANGED <<started, groundY, spaceVars, samplerVars, flowerVars,
                   waveVars, appVars>>

(* the drops that updateDrops(dt) finds below the ground after their fall *)
Falling(dt) ==
    { i \in 1..Len(raindrops) :
        BelowGround(FallDrop(raindrops[i], RAIN_DROP_SPEED * dt), groundY) }

(* A frame of main.ts's gameLoop on the rain renderer: dt is the time the  *)
(* clock advanced since the last frame.  Only the drops that are reset     *)
(* draw random numbers.  The clock is followed while it is below maxNow.   *)
Frame(maxNow, dts, impactRolls, lightningRolls) ==
    /\ now < maxNow
    /\ \E dt \in dts :
         \E rolls \in [Falling(dt) -> impactRolls], lr \in lightningRolls :
              Update(dt, now + dt, rolls, lr)

FirstStart(dropRolls) ==
    ~started /\ \E rolls \in [1..RAIN_DROP_COUNT -> dropRolls] : Start(rolls)

(* The rain pool, with the lightning's draws held to one roll. *)
Next ==
    \/ FirstStart(DropRolls)
    \/ Frame(MaxNow, Dts, ImpactRolls, QuietLightningRolls)

Spec == Init /\ [][Next]_vars

(* The lightning, with the pool's draws held to one roll. *)
NextLightning ==
    \/ FirstStart(QuietDropRolls)
    \/ Frame(MaxLightningNow, LightningDts, QuietImpactRolls, LightningRolls)

SpecLightning == Init /\ [][NextLightning]_vars

(* The lightning timer with frames that bring the clock exactly onto       *)
(* nextLightningTime.                                                      *)
MaxScheduleNow == 5200
ScheduleDts == { 0, 100, 5000 }

NextSchedule ==
    \/ FirstStart(QuietDropRolls)
    \/ Frame(MaxScheduleNow, ScheduleDts, QuietImpactRolls, LightningRolls)

SpecSchedule == Init /\ [][NextSchedule]_vars

(* A frame of the gameLoop on the star field. *)
SpaceFrame ==
    /\ now < MaxSpaceNow
    /\ \E dt \in SpaceDts :
         \E rolls \in [Recycled(stars, dt) -> RecycleRolls] :
              SpaceUpdate(dt, now + dt, rolls)

SpaceFirstStart ==
    ~spaceStarted /\ \E rolls \in [1..STAR_COUNT -> StarRolls] : SpaceStart(rolls)

NextSpace ==
    \/ SpaceFirstStart
    \/ SpaceFrame

SpecSpace == Init /\ [][NextSpace]_vars

(* pickWeightedRandom on every array and draw of the bounds *)
InitSampler ==
    /\ RainConstructed
    /\ SpaceConstructed
    /\ SamplerCalled
    /\ FlowerConstructed
    /\ WaveConstructed
    /\ AppConstructed
    /\ waveBreakingButton = FALSE
    /\ now = 1
    /\ last = NoCall

NextSampler == Pick

SpecSampler == InitSampler /\ [][NextSampler]_vars

(* The bottom menu: clicks on the canvas and the fade callbacks. *)
SpecMenu == Init /\ [][NextMenu]_vars

(* The page: with or without the button of the waves. *)
InitApp ==
    /\ RainConstructed
    /\ SpaceConstructed
    /\ SamplerIdle
    /\ FlowerConstructed
    /\ WaveConstructed
    /\ AppConstructed
    /\ waveBreakingButton \in BOOLEAN
    /\ now = 1
    /\ last = NoCall

AppStart == \E u \in AppPickDraws, rolls \in AppRolls : startApp(u, rolls)

AppFrame ==
    /\ now < MaxAppNow
    /\ \E dt \in AppDts, rolls \in AppRolls : AnimationFrame(dt, rolls)

AppClick == \E name \in ButtonNames : Click(name)

NextApp ==
    \/ AppStart
    \/ AppFrame
    \/ AppClick

SpecApp == InitApp /\ [][NextApp]_vars

(* Each kind on its own: one renderer is started, started again and        *)
(* updated, the others stay as constructed.                                *)
OnlyKind(name) ==
    /\ name # "rain" => ~started
    /\ name # "space" => ~spaceStarted
    /\ name # "flower_falling" => ~flowerStarted
    /\ name # "wave_breaking" => ~waveStarted

RainKindStart ==
    /\ OnlyKind("rain")
    /\ \E rolls \in [1..RAIN_DROP_COUNT -> QuietDropRolls] : Start(rolls)

RainKindFrame ==
    /\ OnlyKind("rain")
    /\ Frame(MaxNow, Dts, QuietImpactRolls, QuietLightningRolls)

SpaceKindStart ==
    /\ OnlyKind("space")
    /\ \E rolls \in [1..STAR_COUNT -> QuietStarRolls] : SpaceStart(rolls)

SpaceKindFrame ==
    /\ OnlyKind("space")
    /\ now < MaxSpaceNow
    /\ \E dt \in SpaceDts :
         \E rolls \in [Recycled(stars, dt) -> QuietRecycleRolls] :
              SpaceUpdate(dt, now + dt, rolls)

FlowerKindStart ==
    /\ OnlyKind("flower_falling")
    /\ \E rolls \in [1..FLOWER_LEAF_COUNT -> LeafRolls] : FlowerStart(rolls)

FlowerKindFrame ==
    /\ OnlyKind("flower_falling")
    /\ now < MaxFlowerNow
    /\ \E dt \in FlowerDts :
         \E rolls \in [LeavesReset(flowerLeaves, dt) -> LeafResetRolls] :
              FlowerUpdate(dt, now + dt, rolls)

WaveKindStart ==
    /\ OnlyKind("wave_breaking")
    /\ Len(waves) < WAVE_COUNT * MaxWaveStarts
    /\ \E rolls \in [1..WAVE_COUNT -> UNION { WaveRolls(i) : i \in 0..(WAVE_COUNT - 1) }] :
         /\ \A i \in 1..WAVE_COUNT : rolls[i] \in WaveRolls(i - 1)
         /\ WaveStart(rolls)

WaveKindFrame ==
    /\ OnlyKind("wave_breaking")
    /\ now < MaxWaveNow
    /\ Len(waveParticles) < MaxWaveParticles
    /\ \E dt \in WaveDts :
         \E biasRolls \in [WavesOver(waves, dt) -> WaveBiasRolls] :
              \E sampleRolls \in [1..SampleCount(updateWave(waves, dt, biasRolls)) -> QuietSampleRolls] :
                   WaveUpdate(dt, now + dt, biasRolls, sampleRolls)

(* the waves alone, from their first start *)
WavesStart ==
    /\ OnlyKind("wave_breaking")
    /\ ~waveStarted
    /\ \E rolls \in [1..WAVE_COUNT -> UNION { WaveRolls(i) : i \in 0..(WAVE_COUNT - 1) }] :
         /\ \A i \in 1..WAVE_COUNT : rolls[i] \in WaveRolls(i - 1)
         /\ WaveStart(rolls)

WavesFrame ==
    /\ OnlyKind("wave_breaking")
    /\ now < MaxWavesNow
    /\ Len(waveParticles) < MaxWaveParticles
    /\ \E dt \in WavesDts :
         \E biasRolls \in [WavesOver(waves, dt) -> WaveBiasRolls] :
              \E sampleRolls \in [1..SampleCount(updateWave(waves, dt, biasRolls)) -> AgeSampleRolls] :
                   WaveUpdate(dt, now + dt, biasRolls, sampleRolls)

NextWaves ==
    \/ WavesStart
    \/ WavesFrame

SpecWaves == Init /\ [][NextWaves]_vars

NextKinds ==
    \/ RainKindStart
    \/ RainKindFrame
    \/ SpaceKindStart
    \/ SpaceKindFrame
    \/ FlowerKindStart
    \/ FlowerKindFrame
    \/ WaveKindStart
    \/ WaveKindFrame

SpecKinds == Init /\ [][NextKinds]_vars

(* The three fixed pools (rain, stars, flowers), each on its own from its  *)
(* first start on, the stars with all their draws.                         *)
PoolsRainStart ==
    /\ OnlyKind("rain")
    /\ FirstStart(DropRolls)

PoolsRainFrame ==
    /\ OnlyKind("rain")
    /\ Frame(MaxNow, Dts, QuietImpactRolls, QuietLightningRolls)

PoolsSpaceStart ==
    /\ OnlyKind("space")
    /\ SpaceFirstStart

PoolsSpaceFrame ==
    /\ OnlyKind("space")
    /\ SpaceFrame

PoolsFlowerStart ==
    /\ OnlyKind("flower_falling")
    /\ ~flowerStarted
    /\ \E rolls \in [1..FLOWER_LEAF_COUNT -> LeafRolls] : FlowerStart(rolls)

PoolsFlowerFrame ==
    /\ OnlyKind("flower_falling")
    /\ now < MaxFlowerNow
    /\ \E dt \in FlowerDts :
         \E rolls \in [LeavesReset(flowerLeaves, dt) -> LeafResetRolls] :
              FlowerUpdate(dt, now + dt, rolls)

NextPools ==
    \/ PoolsRainStart
    \/ PoolsRainFrame
    \/ PoolsSpaceStart
    \/ PoolsSpaceFrame
    \/ PoolsFlowerStart
    \/ PoolsFlowerFrame

SpecPools == Init /\ [][NextPools]_vars

(***************************************************************************)
(* Properties of the rain renderer                                         *)
(***************************************************************************)
Indices(seq) == 1..Len(seq)
InactiveSlots(rs) == { i \in Indices(rs) : rs[i].radius < 0 }
SpawnsInto(i, spawns) == { k \in Indices(spawns) : spawns[k].slot = i }

(* The ripples between updateDrops and updateRipples of the step: a slot   *)
(* makeRipple wrote holds the new ripple, every other slot is as before.   *)
MidRipples ==
    [ i \in Indices(ripples') |->
        IF SpawnsInto(i, last'.spawns) = {}
        THEN ripples[i]
        ELSE LET k == CHOOSE k \in SpawnsInto(i, last'.spawns) : TRUE
             IN  [ position |-> last'.spawns[k].position,
                   radius |-> last'.spawns[k].radius,
                   alpha |-> Unit ] ]

(* the drops whose y an update of dt takes below the ground *)
GoingBelow(dt) ==
    { i \in Indices(raindrops) :
        raindrops[i].position[2] - Mul(RAIN_DROP_SPEED * dt, raindrops[i].speedRatio) < groundY }

(* C2: in an update, every drop that goes below the ground makes exactly   *)
(* one makeRipple call, at (x, groundY, z) of its x and z before the       *)
(* reset, and then has position, speedRatio, tailLength and alpha drawn    *)
(* anew; a drop that stays at or above the ground makes none and only      *)
(* falls; the ripple keeps the position of the impact.                     *)
C2_RainRecycle ==
    [][ last'.op = "update" =>
        LET spawns == last'.spawns
            below == GoingBelow(last'.dt)
        IN  /\ DOMAIN last'.reset = below
            /\ \A i \in Indices(raindrops) :
                  Cardinality({ k \in Indices(spawns) : spawns[k].drop = i })
                    = IF i \in below THEN 1 ELSE 0
            /\ \A k \in Indices(spawns) :
                  /\ spawns[k].position = << raindrops[spawns[k].drop].position[1], groundY,
                                             raindrops[spawns[k].drop].position[3] >>
                  /\ ripples'[spawns[k].slot].position = spawns[k].position
            /\ \A i \in below :
                  LET r == last'.reset[i]
                  IN  /\ raindrops'[i].position[1] = rangedRandom(r[2], 0 - Unit, Unit) * RAINING_RANGE
                      /\ raindrops'[i].position[2] = rangedRandom(r[3], 900, 1500) * RAINING_FROM_HEIGHT
                      /\ raindrops'[i].position[3] = rangedRandom(r[4], 0 - Unit, Unit) * RAINING_RANGE
                      /\ raindrops'[i].speedRatio = rangedRandom(r[5], 500, 1200)
                      /\ raindrops'[i].tailLength = Mul(rangedRandom(r[6], 100, 1000), RAINDROP_TAIL_LENGTH)
                      /\ raindrops'[i].alpha = rangedRandom(r[7], 200, 500)
            /\ \A i \in Indices(raindrops) \ below :
                  raindrops'[i] = [raindrops[i] EXCEPT !.position[2] =
                                     @ - Mul(RAIN_DROP_SPEED * last'.dt, raindrops[i].speedRatio)]
      ]_vars

(* an update reset one drop, whose ripple is live, and left another, which *)
(* sits on the ground, falling                                             *)
C2_Witness ==
    /\ last.op = "update"
    /\ Cardinality(DOMAIN last.reset) = 1
    /\ Len(last.spawns) = 1
    /\ IsActive(ripples[last.spawns[1].slot])
    /\ \E i \in Indices(raindrops) : i \notin DOMAIN last.reset /\ raindrops[i].position[2] = groundY

(* the spawn radius of a ripple: of a pushed slot, of a reused slot *)
InPushRange(radius) ==
    /\ Mul(200, RIPPLE_RADIUS_MAX) <= radius
    /\ radius < Mul(500, RIPPLE_RADIUS_MAX)
InReuseRange(radius) ==
    /\ Mul(100, RIPPLE_RADIUS_MAX) <= radius
    /\ radius < Mul(300, RIPPLE_RADIUS_MAX)

(* an update that starts with no active ripple and takes exactly one drop  *)
(* below the ground                                                        *)
OneDropFalls ==
    /\ last'.op = "update"
    /\ getActiveRipples(ripples) = <<>>
    /\ Cardinality(GoingBelow(last'.dt)) = 1

(* C3 as stated: after such an update the active ripples are exactly one   *)
(* ripple, with a radius in the spawn range and alpha 1.                   *)
C3_AsStated ==
    [][ OneDropFalls =>
        LET active == getActiveRipples(ripples')
        IN  /\ Len(active) = 1
            /\ InPushRange(active[1].radius) \/ InReuseRange(active[1].radius)
            /\ active[1].alpha = Unit
      ]_vars

(* C3, amended: the ripple of the drop is spawned with a radius in the     *)
(* spawn range and alpha 1 and is aged by the updateRipples of the same    *)
(* update: if its radius plus dt * RIPPLE_EXPAND_SPEED is below            *)
(* RIPPLE_RADIUS_MAX it is the one active ripple, with that radius and     *)
(* alpha = 1 - radius / RIPPLE_RADIUS_MAX < 1; otherwise no ripple is      *)
(* active.                                                                 *)
C3_OneAgedRipple ==
    [][ OneDropFalls =>
        LET active == getActiveRipples(ripples')
            spawn == last'.spawns[1]
            radius == spawn.radius + Mul(last'.dt, RIPPLE_EXPAND_SPEED)
        IN  /\ Len(last'.spawns) = 1
            /\ IF spawn.slot > Len(ripples) THEN InPushRange(spawn.radius)
                                            ELSE InReuseRange(spawn.radius)
            /\ IF radius < RIPPLE_RADIUS_MAX
               THEN /\ Len(active) = 1
                    /\ active[1] = ripples'[spawn.slot]
                    /\ active[1].position = spawn.position
                    /\ active[1].radius = radius
                    /\ active[1].alpha = Unit - (radius * Unit) \div RIPPLE_RADIUS_MAX
                    /\ active[1].alpha < Unit
               ELSE active = <<>>
      ]_vars

(* an update reset one drop and its ripple, in the only slot, is active    *)
(* and faded                                                               *)
C3_Witness ==
    /\ last.op = "update"
    /\ last.dt > 0
    /\ Cardinality(DOMAIN last.reset) = 1
    /\ Len(ripples) = 1
    /\ IsActive(ripples[1])
    /\ ripples[1].alpha < Unit

(* C6: currentLightningAlpha is in [0, 1] and                              *)
(* currentRemainedLightningCount is never negative.                        *)
C6_PulseBounded ==
    /\ 0 <= currentLightningAlpha
    /\ currentLightningAlpha <= Unit
    /\ currentRemainedLightningCount >= 0

(* a burst of two has flashed twice and its last flash is fading *)
C6_Witness ==
    /\ currentLightningCount = 2
    /\ currentRemainedLightningCount = 0
    /\ currentLightningAlpha > 0
    /\ currentLightningAlpha < LIGHTNING_ALPHA_MIN

(* C7: a slot with radius < 0 is not among the active ripples the vertex   *)
(* buffer is built from, whose vertex count is 2 * drops + 32 * active     *)
(* ripples, and the next makeRipple may reuse it.                          *)
C7_InactiveNotRendered ==
    LET active == getActiveRipples(ripples)
        inactive == InactiveSlots(ripples)
    IN  /\ Len(active) = Len(ripples) - Cardinality(inactive)
        /\ \A k \in Indices(active) :
              /\ active[k].radius >= 0
              /\ \E i \in Indices(ripples) \ inactive : ripples[i] = active[k]
        /\ VertexCount(raindrops, ripples)
              = 2 * Len(raindrops) + 32 * (Len(ripples) - Cardinality(inactive))
        /\ \A i \in inactive : i \in EmptySlots(ripples)
        /\ inactive # {} =>
              /\ makeRipple(ripples, <<0, groundY, 0>>, 0).slot \in inactive
              /\ Len(makeRipple(ripples, <<0, groundY, 0>>, 0).ripples) = Len(ripples)

(* a deactivated slot beside an active one *)
C7_Witness ==
    /\ InactiveSlots(ripples) # {}
    /\ Len(getActiveRipples(ripples)) >= 1
    /\ \E i \in InactiveSlots(ripples) : ripples[i].radius = 0 - Unit /\ ripples[i].alpha = 0

(* the ripples that are active when updateRipples of the step starts *)
MidActive == { i \in Indices(ripples') : IsActive(MidRipples[i]) }

(* what updateRipples does to radius and activity: a ripple is deactivated *)
(* exactly when its grown radius is at least RIPPLE_RADIUS_MAX             *)
C8_Lifecycle(i) ==
    LET radius == MidRipples[i].radius + Mul(last'.dt, RIPPLE_EXPAND_SPEED)
    IN  IF radius >= RIPPLE_RADIUS_MAX
        THEN ripples'[i].radius = 0 - Unit /\ ripples'[i].alpha = 0
        ELSE /\ ripples'[i].radius = radius
             /\ ripples'[i].alpha = Unit - (radius * Unit) \div RIPPLE_RADIUS_MAX
             /\ IsActive(ripples'[i])

(* C8 as stated: every updateRipples step strictly decreases the alpha of  *)
(* an active ripple.                                                       *)
C8_AsStated ==
    [][ last'.op = "update" =>
        \A i \in MidActive :
            /\ ripples'[i].alpha < MidRipples[i].alpha
            /\ C8_Lifecycle(i)
      ]_vars

(* C8, amended: an updateRipples step never increases the alpha of an      *)
(* active ripple and strictly decreases it when dt > 0 (with dt = 0 the    *)
(* radius does not grow and the alpha of a ripple that has been through a  *)
(* step stays as it is).                                                   *)
C8_RippleFades ==
    [][ last'.op = "update" =>
        \A i \in MidActive :
            /\ ripples'[i].alpha <= MidRipples[i].alpha
            /\ last'.dt > 0 => ripples'[i].alpha < MidRipples[i].alpha
            /\ C8_Lifecycle(i)
      ]_vars

(* a ripple of an earlier update is still active after an update of        *)
(* dt > 0, beside a slot that was deactivated                              *)
C8_Witness ==
    /\ last.op = "update"
    /\ last.dt > 0
    /\ \E i \in Indices(ripples) :
          /\ IsActive(ripples[i])
          /\ SpawnsInto(i, last.spawns) = {}
          /\ ripples[i].alpha < Unit
    /\ InactiveSlots(ripples) # {}

(***************************************************************************)
(* Properties of the star field                                            *)
(***************************************************************************)
InCube(position) ==
    \A k \in 1..3 : Abs(position[k]) <= STAR_VISUAL_RANGE * Unit

DeclaredValues(arr) == { arr[i][1] : i \in Indices(arr) }

(* C1, as the specification states it: once a pool is initialised it holds *)
(* exactly its declared count of particles, STAR_COUNT stars and           *)
(* RAIN_DROP_COUNT raindrops, through every update.                        *)
C1_AsStated ==
    /\ spaceStarted => Len(stars) = STAR_COUNT
    /\ started => Len(raindrops) = RAIN_DROP_COUNT

(* C4: a star that flowStars moves to a coordinate beyond STAR_VISUAL_RANGE *)
(* is, in that same call, given a position drawn inside the cube, alpha 0, *)
(* and a color and a speedRatio sampled from the weighted tables; after    *)
(* every update every star of the pool is inside the cube.                 *)
C4_StarRecycle ==
    [][ (spaceStarted /\ last'.op = "flowStars") =>
          /\ \A i \in Indices(stars) :
                outOfVisualRange(MoveStar(stars[i], last'.dt).position) =>
                  /\ i \in DOMAIN last'.reset
                  /\ stars'[i].position =
                       <<StarCoordinate(last'.reset[i][1]),
                         StarCoordinate(last'.reset[i][2]),
                         StarCoordinate(last'.reset[i][3])>>
                  /\ stars'[i].alpha = 0
                  /\ stars'[i].color = getStarColor(last'.reset[i][4])
                  /\ stars'[i].color \in DeclaredValues(StarColorTable)
                  /\ stars'[i].speedRatio = getStarSpeedRatio(last'.reset[i][5])
                  /\ stars'[i].speedRatio \in DeclaredValues(StarSpeedRatioTable)
          /\ \A i \in Indices(stars') : InCube(stars'[i].position)
      ]_vars

(* a call of flowStars has moved a star beyond the range and redrawn it    *)
C4_Witness ==
    /\ last.op = "flowStars"
    /\ last.dt > 0
    /\ \E i \in last.out : stars[i].alpha = 0 /\ InCube(stars[i].position)

(* C5, as the specification states it: a recycled star is a full           *)
(* re-initialisation of its slot, so what it is after the recycle is       *)
(* settled by its fresh draws alone: two stars recycled with the same      *)
(* draws are alike in every randomized attribute, size included.           *)
C5_AsStated ==
    last.op = "flowStars" =>
        \A i, j \in DOMAIN last.reset :
            last.reset[i] = last.reset[j] =>
                /\ stars[i].position = stars[j].position
                /\ stars[i].color = stars[j].color
                /\ stars[i].size = stars[j].size
                /\ stars[i].speedRatio = stars[j].speedRatio
                /\ stars[i].alpha = stars[j].alpha

(***************************************************************************)
(* Properties of the weighted sampler                                      *)
(***************************************************************************)
RECURSIVE CumulativeWeight(_, _)
CumulativeWeight(arr, i) ==
    IF i = 0 THEN 0 ELSE CumulativeWeight(arr, i - 1) + arr[i][2]

(* the elements whose cumulative weight reaches r *)
Reaching(arr, r) ==
    { i \in Indices(arr) : CumulativeWeight(arr, i) * Unit >= r }

(* the reference: the first element whose cumulative weight reaches r *)
FirstReaching(arr, r) ==
    CHOOSE i \in Reaching(arr, r) : \A j \in Reaching(arr, r) : i <= j

(* random values a quarter apart, from 0 to beyond the total weight *)
WalkedValues(arr) == { 250 * k : k \in 0..(4 * (totalWeight(arr) + 1)) }

(* C9: for an array of positive weights the sampler returns one of the     *)
(* declared values for the draw it made, and the walk returns a declared   *)
(* value for every random value; for a random value that no cumulative     *)
(* weight reaches it returns the last element's value.                     *)
C9_AlwaysDeclared ==
    samplerResult # "none" =>
        /\ samplerResult \in DeclaredValues(samplerArray)
        /\ \A r \in WalkedValues(samplerArray) :
              /\ Walk(samplerArray, 1, 0, r) \in DeclaredValues(samplerArray)
              /\ Reaching(samplerArray, r) = {} =>
                    Walk(samplerArray, 1, 0, r) = samplerArray[Len(samplerArray)][1]

(* the highest draw on an array of MaxLen different values: the walk runs  *)
(* to the last element                                                     *)
C9_Witness ==
    /\ samplerResult # "none"
    /\ Len(samplerArray) = MaxLen
    /\ Cardinality(DeclaredValues(samplerArray)) = MaxLen
    /\ samplerDraw = 999
    /\ samplerResult = samplerArray[Len(samplerArray)][1]

(* C10: for a draw r below the total weight the sampler returns the value  *)
(* of the first element, in order, whose cumulative weight is >= r.        *)
C10_SelectionRule ==
    (samplerResult # "none" /\ samplerDraw < Unit) =>
        samplerResult =
            samplerArray[FirstReaching(samplerArray,
                                       samplerDraw * totalWeight(samplerArray))][1]

(* a draw that is exactly the cumulative weight of an element that is not  *)
(* the last, whose value differs from the next one's                       *)
C10_Witness ==
    \E i \in Indices(samplerArray) :
        /\ samplerResult # "none"
        /\ i < Len(samplerArray)
        /\ samplerDraw * totalWeight(samplerArray) = CumulativeWeight(samplerArray, i) * Unit
        /\ samplerArray[i][1] # samplerArray[i + 1][1]
        /\ samplerResult = samplerArray[i][1]

RECURSIVE WeightOf(_, _, _)
(* the weight declared for value in the first n elements *)
WeightOf(arr, value, n) ==
    IF n = 0 THEN 0
    ELSE WeightOf(arr, value, n - 1) + (IF arr[n][1] = value THEN arr[n][2] ELSE 0)

(* random values a quarter apart over (0, total]: four to each unit of     *)
(* weight.  Over [0, total) the count differs by the two end points only.  *)
QuarterDraws(arr) == { 250 * k : k \in 1..(4 * totalWeight(arr)) }

(* C11: the random values that select a value are as many as its weight:   *)
(* of the evenly spaced random values over the total weight, four to the   *)
(* unit, those for which the sampler returns a value number four times the *)
(* weight declared for it (for two values of weight 1, half of them each). *)
C11_Proportional ==
    samplerResult # "none" =>
        \A value \in DeclaredValues(samplerArray) :
            Cardinality({ r \in QuarterDraws(samplerArray) :
                            Walk(samplerArray, 1, 0, r) = value })
                = 4 * WeightOf(samplerArray, value, Len(samplerArray))

(* the sampler called on two values of weights 1 and 2, the second in two  *)
(* elements                                                                *)
C11_Witness ==
    /\ samplerResult = "b"
    /\ samplerArray = << <<"a", 1>>, <<"b", 1>>, <<"b", 1>> >>
    /\ samplerDraw = 500


(* ---------------------------------------------------------------------- *)
(* C12: update(dt) of every renderer kind completes for every dt >= 0,     *)
(* zero and a dt far beyond a frame included: in every state a started     *)
(* renderer can be in and for every random outcome, its update yields a    *)
(* pool of the same particles with numeric fields, the cull loop over the  *)
(* wave particles ending within one turn per particle.                     *)
IsPosition(position) ==
    /\ DOMAIN position = 1..3
    /\ \A k \in 1..3 : position[k] \in Int

RainUpdateCompletes(dt) ==
    \A rolls \in [Falling(dt) -> QuietImpactRolls] :
         LET d == updateDrops(raindrops, ripples, groundY, dt, rolls)
             rs == updateRipples(d.ripples, dt)
         IN  /\ FadeIn(alpha, dt) \in Int
             /\ Len(d.raindrops) = Len(raindrops)
             /\ \A i \in 1..Len(d.raindrops) : IsPosition(d.raindrops[i].position)
             /\ \A j \in 1..Len(rs) : IsPosition(rs[j].position) /\ rs[j].alpha \in Int

SpaceUpdateCompletes(dt) ==
    \A rolls \in [Recycled(stars, dt) -> QuietRecycleRolls] :
         \A i \in 1..Len(stars) :
              IsPosition((IF i \in Recycled(stars, dt)
                          THEN RecycleStar(MoveStar(stars[i], dt), rolls[i])
                          ELSE MoveStar(stars[i], dt)).position)

FlowerUpdateCompletes(dt) ==
    \A rolls \in [LeavesReset(flowerLeaves, dt) -> LeafResetRolls] :
         LET leaves == updateFlowerFalling(flowerLeaves, dt, rolls)
         IN  /\ Len(leaves) = Len(flowerLeaves)
             /\ \A i \in 1..Len(leaves) :
                  IsPosition(leaves[i].position) /\ IsPosition(leaves[i].rotation)

WaveUpdateCompletes(dt) ==
    \A biasRolls \in [WavesOver(waves, dt) -> WaveBiasRolls] :
         \A sampleRolls \in [1..SampleCount(updateWave(waves, dt, biasRolls)) -> QuietSampleRolls] :
              LET broken == updateWaveBreaking(updateWave(waves, dt, biasRolls),
                                               waveParticles, dt, sampleRolls)
              IN  /\ broken.completed
                  /\ \A k \in 1..Len(broken.particles) : broken.particles[k].age \in Int

C12_UpdateCompletes ==
    /\ started => \A dt \in Dts : RainUpdateCompletes(dt)
    /\ spaceStarted => \A dt \in SpaceDts : SpaceUpdateCompletes(dt)
    /\ flowerStarted => \A dt \in FlowerDts : FlowerUpdateCompletes(dt)
    /\ waveStarted => \A dt \in WaveDts : WaveUpdateCompletes(dt)

(* a wave update with the large dt that has culled particles *)
C12_Witness ==
    /\ waveStarted
    /\ last.op = "updateWave"
    /\ last.dt = 10000
    /\ last.culled > 0

(* ---------------------------------------------------------------------- *)
(* C13: large-dt tolerance.  Within one update(dt), dt = 0 to 10 s, a      *)
(* particle is recycled at most once and a raindrop emits at most one      *)
(* ripple; a recycled particle ends the step at the position of its one    *)
(* fresh draw.  After the step every raindrop and every star is inside its *)
(* kind's volume.  A flower leaf is between the ground and the top of its  *)
(* spawn box; sideways the wind may have carried it out of the spawn       *)
(* range, by no more than the wind blows during one fall.                  *)
InRainVolume(position) ==
    /\ Abs(position[1]) <= RAINING_RANGE * Unit
    /\ Abs(position[3]) <= RAINING_RANGE * Unit
    /\ ~(position[2] < groundY)
    /\ position[2] <= 1500 * RAINING_FROM_HEIGHT

InLeafHeight(position) ==
    /\ ~(position[2] < FlowerGroundY)
    /\ position[2] <= 1500 * FLOWER_LEAF_FALLING_HEIGHT

InLeafVolume(position) ==
    /\ Abs(position[1]) <= FLOWER_LEAF_RANGE * Unit
    /\ Abs(position[3]) <= FLOWER_LEAF_RANGE * Unit
    /\ InLeafHeight(position)

(* the longest fall of a leaf, in ms: from the top of the box at the       *)
(* slowest fallingSpeedRatio                                               *)
LeafFallTime ==
    ((1500 * FLOWER_LEAF_FALLING_HEIGHT) * Unit) \div Mul(FLOWER_FALLING_SPEED, 500) + 1

WindDrift(k) == Mul(Abs(WIND_VECTOR[k]), LeafFallTime)

RainTolerant ==
    last.op = "update" =>
        /\ \A i \in Indices(raindrops) :
              /\ Cardinality({ k \in Indices(last.spawns) : last.spawns[k].drop = i }) <= 1
              /\ InRainVolume(raindrops[i].position)
        /\ \A i \in DOMAIN last.reset :
              raindrops[i].position =
                 << rangedRandom(last.reset[i][2], 0 - Unit, Unit) * RAINING_RANGE,
                    rangedRandom(last.reset[i][3], 900, 1500) * RAINING_FROM_HEIGHT,
                    rangedRandom(last.reset[i][4], 0 - Unit, Unit) * RAINING_RANGE >>

StarsTolerant ==
    last.op = "flowStars" =>
        /\ \A i \in Indices(stars) : InCube(stars[i].position)
        /\ \A i \in DOMAIN last.reset :
              stars[i].position = <<StarCoordinate(last.reset[i][1]),
                                    StarCoordinate(last.reset[i][2]),
                                    StarCoordinate(last.reset[i][3])>>

LeavesRecycledOnce ==
    \A i \in DOMAIN last.reset :
        /\ flowerLeaves[i].position = ResetLeaf(flowerLeaves[i], last.reset[i]).position
        /\ InLeafVolume(flowerLeaves[i].position)

(* as stated: after the step every particle, leaves included, is inside    *)
(* its kind's volume                                                       *)
C13_AsStated ==
    /\ RainTolerant
    /\ StarsTolerant
    /\ last.op = "updateFlowerFalling" =>
          /\ LeavesRecycledOnce
          /\ \A i \in Indices(flowerLeaves) : InLeafVolume(flowerLeaves[i].position)

C13_LargeDt ==
    /\ RainTolerant
    /\ StarsTolerant
    /\ last.op = "updateFlowerFalling" =>
          /\ LeavesRecycledOnce
          /\ \A i \in Indices(flowerLeaves) :
                /\ InLeafHeight(flowerLeaves[i].position)
                /\ Abs(flowerLeaves[i].position[1]) <= FLOWER_LEAF_RANGE * Unit + WindDrift(1)
                /\ Abs(flowerLeaves[i].position[3]) <= FLOWER_LEAF_RANGE * Unit + WindDrift(3)

(* a 10 s update of the flowers has recycled a leaf *)
C13_Witness ==
    /\ flowerStarted
    /\ last.op = "updateFlowerFalling"
    /\ last.dt = 10000
    /\ DOMAIN last.reset # {}

(* ---------------------------------------------------------------------- *)
(* C14: initialize is repeatable.  Right after any call of start(), the    *)
(* first or a later one, the primary collection has its declared size      *)
(* (exactly WAVE_COUNT waves for the wave kind), the derived collections    *)
(* (ripples, waveParticles) are empty and the pool alpha is 0.  The star    *)
(* pool is taken with the test star that initiateStars adds (C1).          *)
C14_AsStated ==
    last.op = "start" =>
        /\ started =>
              /\ Len(raindrops) = RAIN_DROP_COUNT
              /\ ripples = <<>>
              /\ alpha = 0
        /\ spaceStarted =>
              /\ Len(stars) = STAR_COUNT + 1
              /\ spaceAlpha = 0
        /\ flowerStarted =>
              /\ Len(flowerLeaves) = FLOWER_LEAF_COUNT
              /\ flowerAlpha = 0
        /\ waveStarted =>
              /\ Len(waves) = WAVE_COUNT
              /\ waveParticles = <<>>
              /\ waveAlpha = 0

(* ---------------------------------------------------------------------- *)
(* C15: no state is carried across a switch.  In every frame in which the  *)
(* controller starts a renderer, the renderer's whole simulation state     *)
(* after the frame's update (particles, ripples, the four lightning timer   *)
(* fields) is the state a newly constructed renderer has after start() and *)
(* that update: nothing of the previous activation is left in it.          *)
ConstructedStates ==
    [ rain |-> [ raindrops |-> <<>>, ripples |-> <<>>, alpha |-> 0,
                 lightning |-> [ next |-> 0, count |-> 0, remained |-> 0, alpha |-> 0 ] ],
      space |-> [ stars |-> <<>>, alpha |-> 0 ],
      flower_falling |-> [ flowerLeaves |-> <<>>, alpha |-> 0 ],
      started |-> [ rain |-> FALSE, space |-> FALSE, flower_falling |-> FALSE ],
      rendered |-> NoRender ]

StartedInFrame(cs) == { cs[k][2] : k \in { j \in 1..Len(cs) : cs[j][1] = "start" } }

C15_AsStated ==
    [][ last'.op = "gameLoop" =>
          \A name \in StartedInFrame(calls') :
              \E rolls \in AppRolls :
                  RendererStates'[name] =
                      UpdateRenderer(StartRenderer(ConstructedStates, name, rolls),
                                     name, last'.dt, now', rolls)[name]
      ]_vars

(* ---------------------------------------------------------------------- *)
(* C16: frame ordering.  Every gameLoop frame calls update(dt) exactly     *)
(* once and then render() exactly once, both on the renderer of the        *)
(* selected name, and render reads the state that update produced; when    *)
(* the selection has changed, stop() and then start() come before that     *)
(* update, the start on the selected renderer.                             *)
CallsOf(cs, op) == { k \in 1..Len(cs) : cs[k][1] = op }

FrameInOrder(cs, name) ==
    /\ Len(cs) >= 2
    /\ cs[Len(cs) - 1] = <<"update", name>>
    /\ cs[Len(cs)] = <<"render", name>>
    /\ Cardinality(CallsOf(cs, "update")) = 1
    /\ Cardinality(CallsOf(cs, "render")) = 1
    /\ \A k \in CallsOf(cs, "start") :
          /\ cs[k][2] = name
          /\ k < Len(cs) - 1
          /\ \A j \in CallsOf(cs, "stop") : j < k

(* prevRendererName is the name the last frame ran with *)
C16_AsStated ==
    last.op = "gameLoop" =>
        /\ FrameInOrder(calls, prevRendererName)
        /\ rendered = [ name |-> prevRendererName,
                        state |-> RendererStates[prevRendererName] ]

(* ---------------------------------------------------------------------- *)
(* C17: exactly one active pool.  After any sequence of clicks on the      *)
(* selection buttons (wave_breaking where that button exists), every frame *)
(* updates exactly one renderer and renders exactly one, the one selected: *)
(* never zero and never two.                                               *)
RenderersCalled(cs, op) == { cs[k][2] : k \in CallsOf(cs, op) }

C17_AsStated ==
    last.op = "gameLoop" =>
        /\ RenderersCalled(calls, "update") = { prevRendererName }
        /\ RenderersCalled(calls, "render") = { prevRendererName }

(* ---------------------------------------------------------------------- *)
(* C18: ripple slot reuse.  Each makeRipple of an update writes the new    *)
(* ripple into the lowest-index inactive slot of the array as it is at     *)
(* that call, and appends a slot only when every slot is active; the slot  *)
(* then has alpha 1, the impact position and a radius above 0 and below    *)
(* RIPPLE_RADIUS_MAX.  The array never shrinks in an update, and its       *)
(* length is the larger of its length before and the number of ripples     *)
(* active right after the step's spawns, so that from the empty array of   *)
(* an initialize it is the largest number of ripples ever active right     *)
(* after a spawn.                                                          *)
RECURSIVE RipplesAfter(_, _, _)
(* the array after the first k spawns of an update *)
RipplesAfter(rs, spawns, k) ==
    IF k = 0 THEN rs
    ELSE LET before == RipplesAfter(rs, spawns, k - 1)
             ripple == [ position |-> spawns[k].position,
                         radius |-> spawns[k].radius,
                         alpha |-> spawns[k].alpha ]
         IN  IF spawns[k].slot = Len(before) + 1
             THEN Append(before, ripple)
             ELSE [before EXCEPT ![spawns[k].slot] = ripple]

ActiveCount(rs) == Cardinality(Indices(rs) \ InactiveSlots(rs))

C18_SlotReuse ==
    [][ last'.op = "update" =>
        LET spawns == last'.spawns
            after == RipplesAfter(ripples, spawns, Len(spawns))
        IN  /\ \A k \in Indices(spawns) :
                  LET before == RipplesAfter(ripples, spawns, k - 1)
                      slot == spawns[k].slot
                  IN  /\ IF InactiveSlots(before) # {}
                         THEN /\ slot \in InactiveSlots(before)
                              /\ \A j \in InactiveSlots(before) : slot <= j
                         ELSE slot = Len(before) + 1
                      /\ spawns[k].alpha = Unit
                      /\ spawns[k].position =
                            << raindrops[spawns[k].drop].position[1], groundY,
                               raindrops[spawns[k].drop].position[3] >>
                      /\ spawns[k].radius > 0
                      /\ spawns[k].radius < RIPPLE_RADIUS_MAX
            /\ ripples' = updateRipples(after, last'.dt)
            /\ Len(ripples') >= Len(ripples)
            /\ Len(ripples') = IF spawns = <<>> THEN Len(ripples)
                               ELSE Max(Len(ripples), ActiveCount(after))
      ]_vars

(* an update with two impacts: the first ripple went into slot 1, which    *)
(* was inactive, the second was appended behind an active slot             *)
C18_Witness ==
    /\ last.op = "update"
    /\ Len(last.spawns) = 2
    /\ last.spawns[1].slot = 1
    /\ last.spawns[2].slot = Len(ripples)
    /\ Len(ripples) = 3

(* ---------------------------------------------------------------------- *)
(* C19: lightning scheduling.  In an update whose clock is past            *)
(* nextLightningTime (now > nextLightningTime), nextLightningTime becomes  *)
(* now plus an interval of LIGHTNING_INTERVAL_MIN to below                 *)
(* LIGHTNING_INTERVAL_MAX seconds, and currentLightningCount and           *)
(* currentRemainedLightningCount become one integer of                     *)
(* 1 .. LIGHTNING_INTERVAL_SUB_COUNT_MAX - 1.  In an update whose clock is *)
(* at or before nextLightningTime, nextLightningTime and                   *)
(* currentLightningCount do not change.                                    *)
Scheduled ==
    /\ nextLightningTime' - now' >= LIGHTNING_INTERVAL_MIN * Unit
    /\ nextLightningTime' - now' < LIGHTNING_INTERVAL_MAX * Unit
    /\ currentLightningCount' = currentRemainedLightningCount'
    /\ currentLightningCount' \in 1..(LIGHTNING_INTERVAL_SUB_COUNT_MAX - 1)

NotScheduled ==
    /\ nextLightningTime' = nextLightningTime
    /\ currentLightningCount' = currentLightningCount

(* as stated: the timer schedules as soon as the clock has reached         *)
(* nextLightningTime (now >= nextLightningTime)                            *)
C19_AsStated ==
    [][ last'.op = "update" =>
          IF now' >= nextLightningTime THEN Scheduled ELSE NotScheduled ]_vars

C19_Scheduling ==
    [][ last'.op = "update" =>
          IF now' > nextLightningTime THEN Scheduled ELSE NotScheduled ]_vars

(* the clock has passed the first nextLightningTime and a burst of two has *)
(* been scheduled 32.5 s ahead                                             *)
C19_Witness ==
    /\ last.op = "update"
    /\ now > 5001
    /\ nextLightningTime = now + 32500
    /\ currentLightningCount = 2
    /\ currentRemainedLightningCount = 2

(* ---------------------------------------------------------------------- *)
(* C20: lightning flashes.  A step that does not schedule flashes at most  *)
(* once: currentRemainedLightningCount stays or drops by exactly 1.  It    *)
(* drops only when it was above 0 and currentLightningAlpha, decayed by    *)
(* the step, is below 1e-4, and then currentLightningAlpha is set to a     *)
(* value of LIGHTNING_ALPHA_MIN to below 1; without a flash the alpha is   *)
(* the decayed one.  A scheduling step does not flash.  Hence              *)
(* 0 <= currentRemainedLightningCount <= currentLightningCount always:     *)
(* the flashes since a scheduling never exceed its burst count.            *)
DecayedAlpha(dt) ==
    Max(0, currentLightningAlpha
             - dt * (IF currentRemainedLightningCount > 0
                     THEN LIGHTNING_ALPHA_DECAY_SPEED ELSE 1))

C20_Flashes ==
    [][ last'.op = "update" =>
          /\ currentRemainedLightningCount' >= 0
          /\ currentRemainedLightningCount' <= currentLightningCount'
          /\ IF now' > nextLightningTime
             THEN currentLightningAlpha' = currentLightningAlpha
             ELSE /\ currentRemainedLightningCount' \in
                        { currentRemainedLightningCount, currentRemainedLightningCount - 1 }
                  /\ currentRemainedLightningCount' = currentRemainedLightningCount - 1 =>
                        /\ currentRemainedLightningCount > 0
                        /\ DecayedAlpha(last'.dt) * 10000 < Unit
                        /\ currentLightningAlpha' >= LIGHTNING_ALPHA_MIN
                        /\ currentLightningAlpha' < Unit
                  /\ currentRemainedLightningCount' = currentRemainedLightningCount =>
                        currentLightningAlpha' = DecayedAlpha(last'.dt)
      ]_vars

(* the first flash of a burst of two has just happened *)
C20_Witness ==
    /\ last.op = "update"
    /\ currentLightningCount = 2
    /\ currentRemainedLightningCount = 1
    /\ currentLightningAlpha >= LIGHTNING_ALPHA_MIN
    /\ now <= nextLightningTime

(* ---------------------------------------------------------------------- *)
(* C21: lightning decay.  In every step that does not schedule,            *)
(* currentLightningAlpha is lowered by dt * LIGHTNING_ALPHA_DECAY_SPEED    *)
(* while currentRemainedLightningCount is above 0 and by dt * 1 once it is *)
(* 0, never below 0, and it ends the step above its value before only      *)
(* when the step flashed.  With no flash left (count 0) the alpha never    *)
(* increases, in a scheduling step either.                                 *)
Flashed == currentRemainedLightningCount' = currentRemainedLightningCount - 1

C21_Decay ==
    [][ last'.op = "update" =>
          /\ currentLightningAlpha' >= 0
          /\ IF now' > nextLightningTime
             THEN currentLightningAlpha' = currentLightningAlpha
             ELSE /\ ~Flashed =>
                        currentLightningAlpha' =
                           IF currentRemainedLightningCount > 0
                           THEN Max(0, currentLightningAlpha
                                          - last'.dt * LIGHTNING_ALPHA_DECAY_SPEED)
                           ELSE Max(0, currentLightningAlpha - last'.dt * 1)
                  /\ currentLightningAlpha' > currentLightningAlpha => Flashed
                  /\ currentRemainedLightningCount = 0 =>
                        currentLightningAlpha' <= currentLightningAlpha
      ]_vars

(* a burst is over and its last flash has faded at the slow rate for one   *)
(* 0.1 s step: from 0.5 to 0.4                                             *)
C21_Witness ==
    /\ last.op = "update"
    /\ last.dt = 100
    /\ currentLightningCount > 0
    /\ currentRemainedLightningCount = 0
    /\ currentLightningAlpha = LIGHTNING_ALPHA_MIN - 100

(* ---------------------------------------------------------------------- *)
(* C22: star expiry predicate.  In flowStars a star is recycled if and     *)
(* only if, after its move by flowDirection * STAR_FLOW_SPEED * dt *       *)
(* speedRatio, some coordinate is beyond STAR_VISUAL_RANGE or the star is  *)
(* behind the camera plane (dot(position, cameraDirection) < 0).  A        *)
(* recycled star is at its fresh position with alpha 0; any other star     *)
(* keeps color, size and speedRatio and has its position moved and its     *)
(* alpha advanced by dt * speedRatio, clamped to 1.                        *)
MovedPosition(star, dt) ==
    [k \in 1..3 |->
        star.position[k] + Mul(flowDirection[k], Mul(STAR_FLOW_SPEED * dt, star.speedRatio))]

Expired(position) ==
    \/ \E k \in 1..3 : Abs(position[k]) > STAR_VISUAL_RANGE * Unit
    \/ Dot(position, cameraDirection) < 0

C22_StarExpiry ==
    [][ (spaceStarted /\ last'.op = "flowStars") =>
          \A i \in Indices(stars) :
              LET moved == MovedPosition(stars[i], last'.dt)
              IN  IF Expired(moved)
                  THEN /\ i \in DOMAIN last'.reset
                       /\ stars'[i].alpha = 0
                       /\ stars'[i].position =
                            <<StarCoordinate(last'.reset[i][1]),
                              StarCoordinate(last'.reset[i][2]),
                              StarCoordinate(last'.reset[i][3])>>
                  ELSE /\ i \notin DOMAIN last'.reset
                       /\ stars'[i] =
                            [stars[i] EXCEPT
                               !.position = moved,
                               !.alpha = Min(Unit, stars[i].alpha
                                                   + Mul(last'.dt, stars[i].speedRatio))]
      ]_vars

(* one star was recycled for being behind the camera while inside the      *)
(* cube, another star was only moved                                       *)
C22_Witness ==
    /\ spaceStarted
    /\ last.op = "flowStars"
    /\ last.dt > 0
    /\ DOMAIN last.reset \ last.out # {}
    /\ Indices(stars) \ DOMAIN last.reset # {}

(* ---------------------------------------------------------------------- *)
(* C23: a freshly spawned particle and its own expiry predicate.  A        *)
(* raindrop or a flower leaf that was initialized or recycled is not below *)
(* the ground, so the next step with dt = 0 does not recycle it.  A star   *)
(* is spawned anywhere in the cube: the next step with dt = 0 recycles it  *)
(* again exactly when it was spawned behind the camera plane (z > 0).      *)
Fresh ==
    IF last.op = "start"
    THEN IF started THEN Indices(raindrops)
         ELSE IF spaceStarted THEN Indices(stars) ELSE Indices(flowerLeaves)
    ELSE IF last.op \in { "update", "flowStars", "updateFlowerFalling" }
         THEN DOMAIN last.reset
         ELSE {}

RecycledAtOnce ==
    IF started THEN Falling(0)
    ELSE IF spaceStarted THEN Recycled(stars, 0)
    ELSE IF flowerStarted THEN LeavesReset(flowerLeaves, 0)
    ELSE {}

(* as stated: no fresh particle of any kind is recycled by a next step     *)
(* with dt = 0                                                             *)
C23_AsStated == Fresh \cap RecycledAtOnce = {}

C23_FreshNotExpired ==
    Fresh \cap RecycledAtOnce =
        IF spaceStarted THEN { i \in Fresh : stars[i].position[3] > 0 } ELSE {}

(* flowStars has recycled two stars, one to a place in front of the camera *)
(* and one to a place behind it                                            *)
C23_Witness ==
    /\ spaceStarted
    /\ last.op = "flowStars"
    /\ \E i, j \in DOMAIN last.reset :
          /\ stars[i].position[3] > 0
          /\ ~(stars[j].position[3] > 0)

(* ---------------------------------------------------------------------- *)
(* C24: ground invariant.  After initialize and after each update every    *)
(* raindrop and every flower leaf has y >= groundY.  A particle recycled   *)
(* in the step has y of 0.9 to below 1.5 times the fall height.  A         *)
(* raindrop that was not recycled keeps x, z, speedRatio, tailLength and   *)
(* alpha and has y lowered by exactly RAIN_DROP_SPEED * dt * speedRatio.   *)
SpawnHeight(y, height) == y >= 900 * height /\ y < 1500 * height

C24_Ground ==
    [][ /\ \A i \in Indices(raindrops') : raindrops'[i].position[2] >= groundY'
        /\ \A i \in Indices(flowerLeaves') : flowerLeaves'[i].position[2] >= FlowerGroundY
        /\ last'.op = "update" =>
              \A i \in Indices(raindrops) :
                  IF i \in DOMAIN last'.reset
                  THEN SpawnHeight(raindrops'[i].position[2], RAINING_FROM_HEIGHT)
                  ELSE /\ raindrops'[i].position =
                             << raindrops[i].position[1],
                                raindrops[i].position[2]
                                   - Mul(RAIN_DROP_SPEED * last'.dt, raindrops[i].speedRatio),
                                raindrops[i].position[3] >>
                       /\ raindrops'[i].speedRatio = raindrops[i].speedRatio
                       /\ raindrops'[i].tailLength = raindrops[i].tailLength
                       /\ raindrops'[i].alpha = raindrops[i].alpha
        /\ last'.op = "updateFlowerFalling" =>
              \A i \in DOMAIN last'.reset :
                  SpawnHeight(flowerLeaves'[i].position[2], FLOWER_LEAF_FALLING_HEIGHT)
      ]_vars

(* a 0.2 s rain update has recycled one drop and lowered another, which is *)
(* still above the ground                                                  *)
C24_Witness ==
    /\ last.op = "update"
    /\ last.dt = 200
    /\ \E i \in DOMAIN last.reset : SpawnHeight(raindrops[i].position[2], RAINING_FROM_HEIGHT)
    /\ \E j \in Indices(raindrops) \ DOMAIN last.reset : raindrops[j].position[2] > groundY

(* ---------------------------------------------------------------------- *)
(* C25: fade-in accumulators.  For stars and rain the pool-level alpha is  *)
(* always in [0, 1], is 0 right after initialize, never decreases across   *)
(* updates and equals min(1, 0.1 * the sum of dt since the initialize).    *)
(* Every star's own alpha is always in [0, 1] and, unless the star is      *)
(* recycled in the step (alpha = 0), never decreases.  The pools are       *)
(* started at clock 1, so the sum of dt since the initialize is now - 1.   *)
FadedIn(a) == a = Min(Unit, Mul(now - 1, 100))

C25_FadeIn ==
    [][ /\ alpha' \in 0..Unit /\ spaceAlpha' \in 0..Unit
        /\ last'.op = "start" /\ started' => alpha' = 0
        /\ last'.op = "start" /\ spaceStarted' => spaceAlpha' = 0
        /\ alpha' >= alpha /\ spaceAlpha' >= spaceAlpha
        /\ started' => FadedIn(alpha)'
        /\ spaceStarted' => FadedIn(spaceAlpha)'
        /\ \A i \in Indices(stars') : stars'[i].alpha \in 0..Unit
        /\ last'.op = "flowStars" =>
              \A i \in Indices(stars) :
                  IF i \in DOMAIN last'.reset
                  THEN stars'[i].alpha = 0
                  ELSE stars'[i].alpha >= stars[i].alpha
      ]_vars

(* a 0.2 s step over the stars has left the pool half-way faded in,        *)
(* recycled one star and raised the alpha of another                       *)
C25_Witness ==
    /\ spaceStarted
    /\ last.op = "flowStars"
    /\ last.dt = 200
    /\ spaceAlpha > 0 /\ spaceAlpha < Unit
    /\ \E i \in DOMAIN last.reset : stars[i].alpha = 0
    /\ \E j \in Indices(stars) \ DOMAIN last.reset : stars[j].alpha > 0

(* ---------------------------------------------------------------------- *)
(* C26: wave lifecycle.  As stated: every wave's progress is in [0, 1] in  *)
(* every reachable state from initiateWaveBreaking on; each updateWave(dt) *)
(* increases progress by WAVE_PROGRESS_SPEED * dt, and on reaching 1 the   *)
(* wave resets progress to 0 and redraws xBias in [WAVE_BIAS_MIN,          *)
(* WAVE_BIAS_MAX); xBias changes at no other time.                         *)
InBias(xBias) == xBias >= WAVE_BIAS_MIN /\ xBias < WAVE_BIAS_MAX

C26_AtOne ==
    /\ last.op = "updateWave"
    /\ \E i \in Indices(waves) : waves[i].progress = Unit

(* ---------------------------------------------------------------------- *)
(* C27: wave-particle culling.  As stated: in each updateWaveBreaking(dt)  *)
(* every particle in the list, those spawned in this step included, is     *)
(* aged exactly once by dt * WAVE_PARTICLE_AGING_SPEED (the in-loop        *)
(* removal skips no element), and after the step no particle whose age has *)
(* reached 1 (age >= 1) remains; a particle's position never changes after *)
(* spawn, and particles are spawned only by waves whose progress is at or  *)
(* above WAVE_BREAKING_START_PROGRESS.                                     *)
AgedOnce(particle, dt) ==
    [ position |-> particle.position,
      rotation |-> [k \in 1..3 |-> particle.rotation[k]
                                      + Mul(WAVE_PARTICLE_ROTATION_SPEED, dt)],
      age |-> particle.age + dt * WAVE_PARTICLE_AGING_SPEED ]

(* the particles of this step before the second loop: the list, then the   *)
(* particles the step has spawned, which are the last of the list          *)
SpawnCount == (Len(waveParticles') + last'.culled) - Len(waveParticles)
AllAged ==
    LET all == waveParticles \o SpawnedParticles(waves', last'.samples)
    IN  [k \in 1..Len(all) |-> AgedOnce(all[k], last'.dt)]
SpawnedByBreaking ==
    /\ SpawnCount = Len(SpawnedParticles(waves', last'.samples))
    /\ SpawnCount <= WAVE_PARTICLE_SAMPLING_COUNT
          * Cardinality({ i \in Indices(waves') :
                            waves'[i].progress >= WAVE_BREAKING_START_PROGRESS })

C27_AsStated ==
    [][ last'.op = "updateWave" =>
          /\ waveParticles' = SelectSeq(AllAged, LAMBDA particle : particle.age < Unit)
          /\ SpawnedByBreaking
      ]_vars

(* C27 as the code has it: a particle is removed when its age is above 1,  *)
(* so one whose age is exactly 1 remains; the rest as stated.              *)
C27_Culling ==
    [][ /\ last'.op = "updateWave" =>
              /\ waveParticles' = SelectSeq(AllAged, LAMBDA particle : ~(particle.age > Unit))
              /\ SpawnedByBreaking
        /\ last'.op # "updateWave" /\ last'.op # "start" => waveParticles' = waveParticles
      ]_vars

(* an update has removed one particle, kept another that was next to it in *)
(* the list, and a particle of age exactly 1 is in the list                *)
C27_Witness ==
    /\ last.op = "updateWave"
    /\ last.culled > 0
    /\ Len(waveParticles) > 1
    /\ \E k \in Indices(waveParticles) : waveParticles[k].age = Unit

(* ---------------------------------------------------------------------- *)
(* C28: a zero-time step is a no-op on particles.  As stated: from any     *)
(* state reachable by initialize and updates, update(0) leaves every       *)
(* particle's attributes unchanged (star positions, colors, speedRatios    *)
(* and alphas; raindrop state and every ripple's radius, alpha and         *)
(* activity; flower leaf positions and rotations) and spawns or recycles   *)
(* nothing.                                                                *)
RainStill ==
    /\ raindrops' = raindrops
    /\ ripples' = ripples
    /\ DOMAIN last'.reset = {}
    /\ last'.spawns = <<>>
LeavesStill == flowerLeaves' = flowerLeaves /\ DOMAIN last'.reset = {}
(* the stars outside the cube or behind the camera plane where they are *)
StarsOut ==
    { i \in Indices(stars) :
        outOfVisualRange(stars[i].position) \/ outOfScreen(stars[i].position) }

C28_AsStated ==
    [][ last'.dt = 0 =>
          /\ last'.op = "update" => RainStill
          /\ last'.op = "updateFlowerFalling" => LeavesStill
          /\ last'.op = "flowStars" => stars' = stars /\ DOMAIN last'.reset = {}
      ]_vars

(* C28 as the code has it: update(0) is a no-op on raindrops, ripples and  *)
(* leaves; on the stars it recycles exactly those that are outside the     *)
(* cube or behind the camera plane (a star is created or recycled into     *)
(* the whole cube, half of which is behind the camera) and leaves the      *)
(* others unchanged.                                                       *)
C28_ZeroStep ==
    [][ last'.dt = 0 =>
          /\ last'.op = "update" => RainStill
          /\ last'.op = "updateFlowerFalling" => LeavesStill
          /\ last'.op = "flowStars" =>
                /\ DOMAIN last'.reset = StarsOut
                /\ \A i \in Indices(stars) \ StarsOut : stars'[i] = stars[i]
                /\ \A i \in StarsOut : stars'[i].alpha = 0
      ]_vars

(* update(0) over the stars has recycled one star and left another as it   *)
(* was                                                                     *)
C28_Witness ==
    /\ spaceStarted
    /\ last.op = "flowStars"
    /\ last.dt = 0
    /\ DOMAIN last.reset # {}
    /\ Indices(stars) \ DOMAIN last.reset # {}

(* update(0) over rain with an active ripple, and over leaves *)
C28_RainStill ==
    /\ last.op = "update" /\ last.dt = 0
    /\ \E i \in Indices(ripples) : IsActive(ripples[i])

(* ---------------------------------------------------------------------- *)
(* C29: ripple slot domain.  After every update each ripple slot is either *)
(* inactive with radius = -1 and alpha = 0, or active with                 *)
(* 0 < radius < RIPPLE_RADIUS_MAX and 0 < alpha <= 1; no slot ever has a   *)
(* radius in [-1e-6, 0), so the reuse test of makeRipple (radius < -1e-6)  *)
(* and the activity test of updateRipples and getActiveRipples             *)
(* (radius < 0) always agree and no slot is both unrendered and            *)
(* unreusable.                                                             *)
InactiveSlot(ripple) == ripple.radius = 0 - Unit /\ ripple.alpha = 0
ActiveSlot(ripple) ==
    /\ ripple.radius > 0 /\ ripple.radius < RIPPLE_RADIUS_MAX
    /\ ripple.alpha > 0 /\ ripple.alpha <= Unit
Unrendered(rs) == { i \in Indices(rs) : rs[i].radius < 0 }

C29_SlotDomain ==
    /\ \A i \in Indices(ripples) : InactiveSlot(ripples[i]) \/ ActiveSlot(ripples[i])
    /\ \A i \in Indices(ripples) :
          ~(ripples[i].radius < 0 /\ ripples[i].radius * 1000000 >= 0 - Unit)
    /\ EmptySlots(ripples) = Unrendered(ripples)
    /\ Len(getActiveRipples(ripples)) + Cardinality(EmptySlots(ripples)) = Len(ripples)

(* an update has left one slot inactive and another active and fading *)
C29_Witness ==
    /\ last.op = "update"
    /\ \E i \in Indices(ripples) : InactiveSlot(ripples[i])
    /\ \E j \in Indices(ripples) : ActiveSlot(ripples[j]) /\ ripples[j].alpha < Unit

(* ---------------------------------------------------------------------- *)
(* C30: menu toggle under interleaving.  As stated: for any interleaving   *)
(* of canvas click toggles (checkMenuToggle) with the pending fade timer   *)
(* callbacks of hideBottomMenu and showBottomMenu, once all timers have    *)
(* run the bottom menu matches the last toggle: displayed ('flex',         *)
(* opacity '1') if the last toggle started showBottomMenu, hidden          *)
(* (display 'none') if it started hideBottomMenu; a still-running fade     *)
(* chain from an earlier toggle never overrides a later one.               *)
LastToggle == toggled[Len(toggled)]

C30_AsStated ==
    toggled # <<>> /\ menuTimers = <<>> =>
        IF LastToggle = "showBottomMenu"
        THEN menuDisplay = "flex" /\ menuOpacity = <<Unit>>
        ELSE menuDisplay = "none"

(* all timers have run, the last toggle started showBottomMenu, and the    *)
(* menu is not displayed                                                   *)
C30_Overridden ==
    /\ toggled # <<>>
    /\ menuTimers = <<>>
    /\ LastToggle = "showBottomMenu"
    /\ menuDisplay = "none"

====
